---- MODULE Spec2Model ----
(***************************************************************************)
(* The frame-to-grid-to-sound pipeline of CameraFlipDotDisplay.            *)
(*                                                                         *)
(* The repository holds the class in two structural variants:              *)
(*   "dom"    src/script.js (lines 360-743): one DOM element per dot,      *)
(*            setDot per cell, setInterval driver, no voice limit;         *)
(*   "canvas" src/unnamed/part_000 and part_001: Uint8Array grids,         *)
(*            renderDots, requestAnimationFrame driver, maxOscillators.    *)
(* part_000 and part_001 differ only in the synthesis graph, the pitch     *)
(* formula and the trigger probability; the state machine is the same.     *)
(*                                                                         *)
(* JavaScript handlers run to completion, so each handler is one action.   *)
(* What a handler does inside one run (the order of its writes, draws and  *)
(* sound triggers) is the events field of the record the handler's         *)
(* operator computes; the action commits the record's other fields.        *)
(***************************************************************************)
EXTENDS Integers, Sequences, FiniteSets, TLC

\* The grid, scaled down from 120 x 120.
cols == 2
rows == 1
\* The voice limit of the canvas variants, scaled down from 30.
maxOscillators == 1
\* getUserMedia requests that may be pending at once.
MaxPendingGrants == 1
\* requestAnimationFrame callbacks that may be scheduled at once.
MaxRafCallbacks == 1
\* The latest reading of audioContext.currentTime, in units of the audio clock.
MaxAudioTime == 0

VARIABLES
    variant,             \* which script is loaded: "dom" or "canvas"
    scene,               \* the pixel samples (R, G, B) the camera's view holds
    grayAbove,           \* the outcomes of gray > threshold for the values in play
    constructed,         \* `let display = new CameraFlipDotDisplay()` returned
    currentState,        \* canvas: currentState[i]; dom: dots[i].state
    previousState,
    stream,              \* this.stream is not null
    cameraActive,
    startDisabled,       \* the startCamera button's disabled flag
    pendingGetUserMedia, \* startCamera calls awaiting getUserMedia
    metadataPending,     \* video.srcObject was set, loadedmetadata not yet delivered
    videoReadyState,     \* video.readyState
    animationFrameId,    \* canvas: 0 stands for null
    rafCallbacks,        \* canvas: ids of the scheduled processLoop callbacks
    updateInterval,      \* dom: 0 stands for null
    intervalTimers,      \* dom: ids of the live setInterval timers
    threshold,
    brightness,
    contrast,
    mirrorCamera,
    audioContext,        \* this.audioContext (and masterGain) is not null
    soundEnabled,
    volume,              \* this.volume in hundredths (0.2 is 20)
    activeOscillators,   \* the Map: key string -> id of the voice stored under it
    voices,              \* oscillators started whose onended has not run yet
    lastTickGrid,        \* history: the grid as the last frame that ran left it
    stopped,             \* history: stopCamera returned, startCamera not called since
    tones,               \* the frequencies computed for the rows of one display
    pass,                \* one call of renderDots on a grid of its own
    flipDisc             \* the FlipDiscDisplay and the timers of its page

vars == <<variant, scene, grayAbove, constructed, currentState, previousState, stream, cameraActive,
          startDisabled, pendingGetUserMedia, metadataPending, videoReadyState,
          animationFrameId, rafCallbacks, updateInterval, intervalTimers,
          threshold, brightness, contrast, mirrorCamera, audioContext,
          soundEnabled, volume, activeOscillators, voices, lastTickGrid, stopped,
          tones, pass, flipDisc>>

Variants == {"dom", "canvas"}
NCells == cols * rows
Cells == 0 .. (NCells - 1)
RowOf(i) == i \div cols
ColOf(i) == i % cols

\* Pixel samples (R, G, B) a frame may hold at a cell.
Samples == {<<50, 50, 50>>, <<200, 200, 200>>}
\* The frames getImageData may return.
Frames == [Cells -> scene]
\* Values the sliders hand to the setters: strings, held as sequences of
\* one-character strings.
ThresholdInputs == {<<"1", "2", "8">>, <<"2", "2", "0">>}
BrightnessInputs == {<<"0">>, <<"3", "0">>}
ContrastInputs == {<<"1", "0", "0">>, <<"0">>}
VolumeInputs == {<<"5", "0">>}
\* The wider samples and slider values of the thresholding runs.
ThresholdSamples ==
    {<<0, 0, 0>>, <<4, 5, 5>>, <<50, 50, 50>>, <<161, 161, 162>>, <<200, 200, 200>>,
     <<255, 255, 255>>}
ThresholdRange == {<<"0">>, <<"6", "1">>, <<"1", "2", "8">>, <<"1", "8", "8">>, <<"2", "5", "5">>}
BrightnessRange == {<<"-", "1", "0", "0">>, <<"0">>, <<"3", "0">>, <<"1", "0", "0">>}
ContrastRange == {<<"0">>, <<"3", "0">>, <<"4", "5">>, <<"1", "0", "0">>, <<"1", "8", "0">>}
\* Arguments a caller may hand to a setter beyond what the sliders produce.
SetterInputs == {<<"2", "5", "6">>, <<"-", "5">>, <<"a", "b", "c">>, <<>>, <<"1", "2", "p", "x">>, <<" ", "4", "2">>}
\* video.readyState values the media element moves through once it has a source.
ReadyStates == {1, 2}
\* Values a handler may read from audioContext.currentTime.
AudioTimes == 0 .. MaxAudioTime

----------------------------------------------------------------------------
(* String to Number conversions.  The integers the inputs in play denote are
   far from NaN, the integer that stands for the Number NaN. *)

NaN == -1000000000
IsNaN(x) == x = NaN

WhiteSpace == {" "}
Digits == <<"0", "1", "2", "3", "4", "5", "6", "7", "8", "9",
            "a", "b", "c", "d", "e", "f">>
IsDigit(c, radix) == \E d \in 1 .. radix : Digits[d] = c
DigitValue(c) == (CHOOSE d \in 1 .. Len(Digits) : Digits[d] = c) - 1

RECURSIVE SkipWhiteSpace(_)
SkipWhiteSpace(s) ==
    IF s # <<>> /\ Head(s) \in WhiteSpace THEN SkipWhiteSpace(Tail(s)) ELSE s

RECURSIVE DropTrailingWhiteSpace(_)
DropTrailingWhiteSpace(s) ==
    IF s # <<>> /\ s[Len(s)] \in WhiteSpace
    THEN DropTrailingWhiteSpace(SubSeq(s, 1, Len(s) - 1))
    ELSE s

\* The value of the longest prefix of s made of digits of the radix.
RECURSIVE DigitsPrefix(_, _, _)
DigitsPrefix(s, radix, acc) ==
    IF s # <<>> /\ IsDigit(Head(s), radix)
    THEN DigitsPrefix(Tail(s), radix, acc * radix + DigitValue(Head(s)))
    ELSE acc

AllDigits(s, radix) == \A j \in 1 .. Len(s) : IsDigit(s[j], radix)

\* parseInt(value) for a string of lower-case characters: leading white space,
\* a sign, a 0x prefix, then the digits up to the first character that is none.
ParseInt(value) ==
    LET s == SkipWhiteSpace(value)
        signed == s # <<>> /\ Head(s) \in {"+", "-"}
        body == IF signed THEN Tail(s) ELSE s
        hex == Len(body) >= 2 /\ body[1] = "0" /\ body[2] = "x"
        digits == IF hex THEN Tail(Tail(body)) ELSE body
        radix == IF hex THEN 16 ELSE 10
    IN  IF digits = <<>> \/ ~IsDigit(Head(digits), radix) THEN NaN
        ELSE IF signed /\ Head(s) = "-" THEN 0 - DigitsPrefix(digits, radix, 0)
        ELSE DigitsPrefix(digits, radix, 0)

\* The Number a string of lower-case characters without ".", exponent or
\* "infinity" converts to, as value / 100 converts its left operand: white
\* space is trimmed, the empty string is 0, and the rest must be a whole
\* literal.
ToNumber(value) ==
    LET s == DropTrailingWhiteSpace(SkipWhiteSpace(value))
        signed == s # <<>> /\ Head(s) \in {"+", "-"}
        body == IF signed THEN Tail(s) ELSE s
        hex == ~signed /\ Len(body) >= 2 /\ body[1] = "0" /\ body[2] = "x"
    IN  IF s = <<>> THEN 0
        ELSE IF hex
             THEN IF Len(body) > 2 /\ AllDigits(Tail(Tail(body)), 16)
                  THEN DigitsPrefix(Tail(Tail(body)), 16, 0)
                  ELSE NaN
        ELSE IF body = <<>> \/ ~AllDigits(body, 10) THEN NaN
        ELSE IF Head(s) = "-" THEN 0 - DigitsPrefix(body, 10, 0)
        ELSE DigitsPrefix(body, 10, 0)

\* The integers a set of slider strings denotes.
Parsed(values) == {ParseInt(value) : value \in values} \ {NaN}

----------------------------------------------------------------------------
(* Natural numbers of any size, as little-endian sequences of limbs below
   LimbBase with no leading zero limb; << >> is zero.  Every intermediate
   product stays below 2^31. *)

LimbBase == 32768
LimbBits == 15

Max2(a, b) == IF a >= b THEN a ELSE b
Min2(a, b) == IF a <= b THEN a ELSE b

RECURSIVE BigOf(_)
BigOf(n) == IF n = 0 THEN << >> ELSE <<n % LimbBase>> \o BigOf(n \div LimbBase)

RECURSIVE Trim(_)
Trim(a) ==
    IF a = << >> THEN a
    ELSE IF a[Len(a)] = 0 THEN Trim(SubSeq(a, 1, Len(a) - 1))
    ELSE a

Limb(a, i) == IF i <= Len(a) THEN a[i] ELSE 0

RECURSIVE AddFrom(_, _, _, _)
AddFrom(a, b, i, carry) ==
    IF i > Len(a) /\ i > Len(b)
    THEN IF carry = 0 THEN << >> ELSE <<carry>>
    ELSE LET t == Limb(a, i) + Limb(b, i) + carry
         IN  <<t % LimbBase>> \o AddFrom(a, b, i + 1, t \div LimbBase)

BigAdd(a, b) == AddFrom(a, b, 1, 0)

\* a - b for a >= b.
RECURSIVE SubFrom(_, _, _, _)
SubFrom(a, b, i, borrow) ==
    IF i > Len(a) THEN << >>
    ELSE LET t == Limb(a, i) - Limb(b, i) - borrow
         IN  IF t < 0 THEN <<t + LimbBase>> \o SubFrom(a, b, i + 1, 1)
             ELSE <<t>> \o SubFrom(a, b, i + 1, 0)

BigSub(a, b) == Trim(SubFrom(a, b, 1, 0))

RECURSIVE CmpFrom(_, _, _)
CmpFrom(a, b, i) ==
    IF i = 0 THEN 0
    ELSE IF a[i] < b[i] THEN -1
    ELSE IF a[i] > b[i] THEN 1
    ELSE CmpFrom(a, b, i - 1)

\* -1, 0 or 1 as a is below, equal to or above b.
BigCmp(a, b) ==
    IF Len(a) < Len(b) THEN -1
    ELSE IF Len(a) > Len(b) THEN 1
    ELSE CmpFrom(a, b, Len(a))

RECURSIVE MulSmallFrom(_, _, _, _)
MulSmallFrom(a, k, i, carry) ==
    IF i > Len(a)
    THEN IF carry = 0 THEN << >> ELSE <<carry>>
    ELSE LET t == a[i] * k + carry
         IN  <<t % LimbBase>> \o MulSmallFrom(a, k, i + 1, t \div LimbBase)

\* a * k for 0 <= k < LimbBase.
BigMulSmall(a, k) == IF k = 0 THEN << >> ELSE MulSmallFrom(a, k, 1, 0)

\* a * LimbBase^n.
ShiftLimbs(a, n) == IF a = << >> THEN a ELSE [j \in 1 .. n |-> 0] \o a

RECURSIVE MulFrom(_, _, _)
MulFrom(a, b, i) ==
    IF i > Len(b) THEN << >>
    ELSE BigAdd(ShiftLimbs(BigMulSmall(a, b[i]), i - 1), MulFrom(a, b, i + 1))

BigMul(a, b) == MulFrom(a, b, 1)

\* Long division by 0 < k < LimbBase from limb i downwards.
RECURSIVE DivSmallFrom(_, _, _, _)
DivSmallFrom(a, k, i, rem) ==
    IF i = 0 THEN [q |-> << >>, r |-> rem]
    ELSE LET t == rem * LimbBase + a[i]
             rest == DivSmallFrom(a, k, i - 1, t % k)
         IN  [q |-> Append(rest.q, t \div k), r |-> rest.r]

\* Quotient q and remainder r of a by k.
BigDivSmall(a, k) ==
    LET d == DivSmallFrom(a, k, Len(a), 0)
    IN  [q |-> Trim(d.q), r |-> d.r]

\* a * 2^k.
BigShl(a, k) == ShiftLimbs(BigMulSmall(a, 2 ^ (k % LimbBits)), k \div LimbBits)

\* floor(a / 2^k).
BigShr(a, k) ==
    IF k \div LimbBits >= Len(a) THEN << >>
    ELSE BigDivSmall(SubSeq(a, (k \div LimbBits) + 1, Len(a)), 2 ^ (k % LimbBits)).q

\* The number of binary digits of a.
BitLen(a) ==
    IF a = << >> THEN 0
    ELSE LimbBits * (Len(a) - 1)
         + (CHOOSE k \in 1 .. LimbBits : 2 ^ (k - 1) <= a[Len(a)] /\ a[Len(a)] < 2 ^ k)

----------------------------------------------------------------------------
(* JavaScript Numbers: IEEE 754 binary64, every operation rounded to nearest,
   ties to even.  A finite Number is [neg, mag, scale], standing for
   (-1)^neg * mag * 2^(-scale) with mag of at most Precision bits (or more bits
   whose low ones are zero).  The magnitudes processFrame meets lie far inside
   the normal range, so neither subnormals nor overflow are modelled. *)

Precision == 53
\* Fraction bits carried by a quotient before it is rounded.
QuotientBits == 64

\* The Number nearest to (n + f) * 2^(-scale), where 0 <= f < 1 and sticky
\* tells whether f > 0; a sticky n has more than Precision + 1 bits.
RoundNearestEven(neg, n, sticky, scale) ==
    LET d == BitLen(n) - Precision
    IN  IF d <= 0
        THEN [neg |-> neg /\ n # << >>, mag |-> n, scale |-> scale]
        ELSE LET m == BigShr(n, d)
                 rem == BigSub(n, BigShl(m, d))
                 c == BigCmp(rem, BigShl(<<1>>, d - 1))
                 up == c > 0 \/ (c = 0 /\ (sticky \/ m[1] % 2 = 1))
                 m1 == IF up THEN BigAdd(m, <<1>>) ELSE m
             IN  IF d <= scale
                 THEN [neg |-> neg, mag |-> m1, scale |-> scale - d]
                 ELSE [neg |-> neg, mag |-> BigShl(m1, d - scale), scale |-> 0]

\* An integer below 2^31 in magnitude is a Number as it stands.
NumberOf(n) == [neg |-> n < 0, mag |-> BigOf(IF n < 0 THEN -n ELSE n), scale |-> 0]

\* x.mag brought to the scale s >= x.scale.
Aligned(x, s) == BigShl(x.mag, s - x.scale)

\* x + y
NumberAdd(x, y) ==
    LET s == Max2(x.scale, y.scale)
        a == Aligned(x, s)
        b == Aligned(y, s)
    IN  IF x.neg = y.neg THEN RoundNearestEven(x.neg, BigAdd(a, b), FALSE, s)
        ELSE IF BigCmp(a, b) >= 0 THEN RoundNearestEven(x.neg, BigSub(a, b), FALSE, s)
        ELSE RoundNearestEven(y.neg, BigSub(b, a), FALSE, s)

\* x * y
NumberMul(x, y) ==
    RoundNearestEven(x.neg # y.neg, BigMul(x.mag, y.mag), FALSE, x.scale + y.scale)

\* a / k for integers a and 0 < k < LimbBase.
NumberDiv(a, k) ==
    LET d == BigDivSmall(BigShl(BigOf(IF a < 0 THEN -a ELSE a), QuotientBits), k)
    IN  RoundNearestEven(a < 0, d.q, d.r # 0, QuotientBits)

\* x > y
NumberGreater(x, y) ==
    IF x.neg # y.neg THEN y.neg
    ELSE LET s == Max2(x.scale, y.scale)
             c == BigCmp(Aligned(x, s), Aligned(y, s))
         IN  IF x.neg THEN c < 0 ELSE c > 0

NumberMax(x, y) == IF NumberGreater(y, x) THEN y ELSE x
NumberMin(x, y) == IF NumberGreater(x, y) THEN y ELSE x

----------------------------------------------------------------------------
(* Thresholding: processFrame's per-pixel arithmetic. *)

\* gray = (r + g + b) / 3; gray += brightness;
\* gray = ((gray - 128) * (contrast / 100)) + 128; gray = max(0, min(255, gray)).
Gray(sum, br, ct) ==
    LET mean == NumberDiv(sum, 3)
        bright == NumberAdd(mean, NumberOf(br))
        centred == NumberAdd(bright, NumberOf(-128))
        scaled == NumberMul(centred, NumberDiv(ct, 100))
        gray == NumberAdd(scaled, NumberOf(128))
    IN  NumberMax(NumberOf(0), NumberMin(NumberOf(255), gray))

\* The comparison made inclusive: gray >= threshold.
GrayAtLeast(sum, th, br, ct) == ~NumberGreater(NumberOf(th), Gray(sum, br, ct))

\* gray > threshold, as processFrame evaluates it.
GrayAbove(sum, th, br, ct) == NumberGreater(Gray(sum, br, ct), NumberOf(th))

\* GrayAbove for the samples and slider values given.  The arithmetic is a
\* function of its operands alone, so its outcomes for the values in play are
\* worked out once, when a behaviour starts, and held in grayAbove.
GrayAboveTable(samples, thresholds, brightnesses, contrasts) ==
    UNION {IF GrayAbove(x[1], x[2], x[3], x[4]) THEN {x} ELSE {} :
              x \in {px[1] + px[2] + px[3] : px \in samples}
                    \X thresholds \X brightnesses \X contrasts}

\* currentState[i] = gray > threshold ? 1 : 0
\* A NaN brightness or contrast makes gray NaN, and a comparison with NaN on
\* either side is false.
ThresholdPixel(px, th, br, ct) ==
    IF IsNaN(th) \/ IsNaN(br) \/ IsNaN(ct) THEN FALSE
    ELSE <<px[1] + px[2] + px[3], th, br, ct>> \in grayAbove

----------------------------------------------------------------------------
(* The voice pool. *)

Key(row, col) == ToString(row) \o "-" \o ToString(col)

\* A fresh oscillator object. A voice is named by its key and an id that no
\* live voice of the same key carries.
NewVoiceId(vs, key) ==
    LET used == {v.id : v \in {w \in vs : w.key = key}}
    IN  CHOOSE n \in 1 .. (Cardinality(used) + 1) :
            n \notin used /\ \A m \in 1 .. (n - 1) : m \in used

\* Map.set, Map.delete and the empty Map.
MapSet(m, k, x) == [j \in (DOMAIN m) \cup {k} |-> IF j = k THEN x ELSE m[j]]
MapDelete(m, k) == [j \in (DOMAIN m) \ {k} |-> m[j]]
EmptyMap == [j \in {} |-> 0]

\* The time from oscillator.start(now) to oscillator.stop(now + duration), in
\* milliseconds: 0.3 s in script.js, 0.25 s in part_000 (3.5 s in part_001).
Duration == IF variant = "dom" THEN 300 ELSE 250

\* The part of playDroneSound after its guards: the oscillator is started at
\* now and scheduled to stop, stored under key, and its onended closure (which
\* captures key) is pending.
StartVoice(acc, row, col) ==
    LET key == Key(row, col)
        v == [id |-> NewVoiceId(acc.voices, key), key |-> key,
              start |-> acc.now, duration |-> Duration]
    IN  [acc EXCEPT !.osc = MapSet(acc.osc, key, v.id),
                    !.voices = acc.voices \cup {v},
                    !.events = Append(acc.events, <<"voice", row * cols + col>>)]

\* Fault: playDroneSound without the soundEnabled test.
PlayDroneSoundIgnoresMute(acc, row, col) ==
    LET called == [acc EXCEPT !.events = Append(acc.events, <<"trig", row * cols + col>>)]
    IN  IF ~audioContext THEN called
        ELSE IF Cardinality(DOMAIN acc.osc) >= maxOscillators THEN called
        ELSE IF Key(row, col) \in DOMAIN acc.osc THEN called
        ELSE StartVoice(called, row, col)

\* Fault: playDroneSound comparing the pool size with > instead of >=.
PlayDroneSoundOffByOne(acc, row, col) ==
    LET called == [acc EXCEPT !.events = Append(acc.events, <<"trig", row * cols + col>>)]
    IN  IF ~soundEnabled \/ ~audioContext THEN called
        ELSE IF Cardinality(DOMAIN acc.osc) > maxOscillators THEN called
        ELSE IF Key(row, col) \in DOMAIN acc.osc THEN called
        ELSE StartVoice(called, row, col)

PlayDroneSoundCanvas(acc, row, col) ==
    LET called == [acc EXCEPT !.events = Append(acc.events, <<"trig", row * cols + col>>)]
    IN  IF ~soundEnabled \/ ~audioContext THEN called
        ELSE IF Cardinality(DOMAIN acc.osc) >= maxOscillators THEN called
        ELSE IF Key(row, col) \in DOMAIN acc.osc THEN called
        ELSE StartVoice(called, row, col)

\* Fault: playDroneSound without the activeOscillators.has(key) test.
PlayDroneSoundNoHasCheck(acc, row, col) ==
    LET called == [acc EXCEPT !.events = Append(acc.events, <<"trig", row * cols + col>>)]
    IN  IF ~soundEnabled \/ ~audioContext THEN called
        ELSE StartVoice(called, row, col)

PlayDroneSoundDom(acc, row, col) ==
    LET called == [acc EXCEPT !.events = Append(acc.events, <<"trig", row * cols + col>>)]
    IN  IF ~soundEnabled \/ ~audioContext THEN called
        ELSE IF Key(row, col) \in DOMAIN acc.osc THEN called
        ELSE StartVoice(called, row, col)

----------------------------------------------------------------------------
(* The canvas variants: renderDots and processFrame. *)

\* Fault: renderDots triggering on every on cell, whatever previousState holds.
RenderCellIgnoresPrevious(acc, i, lucky) ==
    LET drawn == [acc EXCEPT !.events = Append(acc.events, <<"draw", i>>)]
    IN  IF acc.cur[i]
        THEN LET act == [drawn EXCEPT !.events = Append(drawn.events, <<"act", i>>)]
             IN  IF i \in lucky THEN PlayDroneSoundCanvas(act, RowOf(i), ColOf(i))
                 ELSE act
        ELSE drawn

\* A renderer that sounds a cell's turning off as well.
RenderCellSoundsDeactivation(acc, i, lucky) ==
    LET drawn == [acc EXCEPT !.events = Append(acc.events, <<"draw", i>>)]
    IN  IF acc.cur[i] /\ ~acc.prev[i]
        THEN LET act == [drawn EXCEPT !.events = Append(drawn.events, <<"act", i>>)]
             IN  IF i \in lucky THEN PlayDroneSoundCanvas(act, RowOf(i), ColOf(i))
                 ELSE act
        ELSE IF acc.prev[i] /\ ~acc.cur[i]
        THEN PlayDroneSoundCanvas(drawn, RowOf(i), ColOf(i))
        ELSE drawn

\* One iteration of renderDots' loops, for the cell at index i.
\* lucky holds the cells for which Math.random() exceeds the trigger level.
RenderCell(acc, i, lucky) ==
    LET drawn == [acc EXCEPT !.events = Append(acc.events, <<"draw", i>>)]
    IN  IF acc.cur[i] /\ ~acc.prev[i]
        THEN LET act == [drawn EXCEPT !.events = Append(drawn.events, <<"act", i>>)]
             IN  IF i \in lucky THEN PlayDroneSoundCanvas(act, RowOf(i), ColOf(i))
                 ELSE act
        ELSE drawn

RECURSIVE RenderFrom(_, _, _)
RenderFrom(acc, i, lucky) ==
    IF i >= NCells THEN acc
    ELSE RenderFrom(RenderCell(acc, i, lucky), i + 1, lucky)

\* Fault: renderDots without previousState.set(currentState).
CopyPreviousNever(acc) ==
    [acc EXCEPT !.events = acc.events \o [j \in 1 .. NCells |-> <<"prev", j - 1>>]]

\* Fault: previousState replaced by a copy that lacks the last cell.
CopyPreviousShort(acc) ==
    [acc EXCEPT !.prev = [i \in Cells \ {NCells - 1} |-> acc.cur[i]],
                !.events = acc.events \o [j \in 1 .. NCells |-> <<"prev", j - 1>>]]

\* previousState.set(currentState)
CopyPrevious(acc) ==
    [acc EXCEPT !.prev = acc.cur,
                !.events = acc.events \o [j \in 1 .. NCells |-> <<"prev", j - 1>>]]

RenderDots(acc, lucky) == CopyPrevious(RenderFrom(acc, 0, lucky))

Mirror(raw) == [i \in Cells |-> raw[RowOf(i) * cols + (cols - 1 - ColOf(i))]]

Sampled(raw) == IF mirrorCamera THEN Mirror(raw) ELSE raw

Here == [cur |-> currentState, prev |-> previousState, osc |-> activeOscillators,
         voices |-> voices, events |-> <<>>, data |-> <<>>, last |-> lastTickGrid,
         now |-> 0]

\* Fault: processFrame accepting a video that has metadata but no frame.
NotReadyBelowMetadata == ~cameraActive \/ videoReadyState < 1

NotReady == ~cameraActive \/ videoReadyState < 2

\* Fault: processFrame thresholding with the threshold the display was
\* constructed with instead of the current one.
ProcessFrameCanvasStaleThreshold(raw, lucky, now) ==
    IF NotReady THEN Here
    ELSE LET data == Sampled(raw)
             cur == [i \in Cells |-> ThresholdPixel(data[i], 128, brightness, contrast)]
             written == [Here EXCEPT !.cur = cur, !.data = data, !.now = now,
                                     !.events = [j \in 1 .. NCells |-> <<"cur", j - 1>>]]
             rendered == RenderDots(written, lucky)
         IN  [rendered EXCEPT !.last = rendered.cur]

\* Thresholding with a memory: a cell that is on stays on.
ProcessFrameCanvasSticky(raw, lucky, now) ==
    IF NotReady THEN Here
    ELSE LET data == Sampled(raw)
             cur == [i \in Cells |->
                        \/ currentState[i]
                        \/ ThresholdPixel(data[i], threshold, brightness, contrast)]
             written == [Here EXCEPT !.cur = cur, !.data = data, !.now = now,
                                     !.events = [j \in 1 .. NCells |-> <<"cur", j - 1>>]]
             rendered == RenderDots(written, lucky)
         IN  [rendered EXCEPT !.last = rendered.cur]

\* now is the reading of audioContext.currentTime during the frame.
ProcessFrameCanvas(raw, lucky, now) ==
    IF NotReady THEN Here
    ELSE LET data == Sampled(raw)
             cur == [i \in Cells |-> ThresholdPixel(data[i], threshold, brightness, contrast)]
             written == [Here EXCEPT !.cur = cur, !.data = data, !.now = now,
                                     !.events = [j \in 1 .. NCells |-> <<"cur", j - 1>>]]
             rendered == RenderDots(written, lucky)
         IN  [rendered EXCEPT !.last = rendered.cur]

----------------------------------------------------------------------------
(* The dom variant: setDot and processFrame. *)

SetDot(acc, i, state) ==
    IF acc.prev[i] = state THEN acc
    ELSE LET stored == [acc EXCEPT !.prev = [acc.prev EXCEPT ![i] = state],
                                   !.cur = [acc.cur EXCEPT ![i] = state],
                                   !.events = acc.events \o << <<"prev", i>>, <<"cur", i>> >>]
             sounded == IF state
                        THEN PlayDroneSoundDom(
                                 [stored EXCEPT !.events = Append(stored.events, <<"act", i>>)],
                                 RowOf(i), ColOf(i))
                        ELSE [stored EXCEPT !.events = Append(stored.events, <<"deact", i>>)]
         IN  [sounded EXCEPT !.events = Append(sounded.events, <<"draw", i>>)]

RECURSIVE SetDotsFrom(_, _, _)
SetDotsFrom(acc, i, data) ==
    IF i >= NCells THEN acc
    ELSE SetDotsFrom(
             SetDot([acc EXCEPT !.events = Append(acc.events, <<"thr", i>>)], i,
                    ThresholdPixel(data[i], threshold, brightness, contrast)),
             i + 1, data)

ProcessFrameDom(raw, now) ==
    IF NotReady THEN Here
    ELSE LET set == SetDotsFrom([Here EXCEPT !.data = Sampled(raw), !.now = now],
                                0, Sampled(raw))
         IN  [set EXCEPT !.last = set.cur]

----------------------------------------------------------------------------
(* State changes shared by the handlers. *)

\* The grid and the pool take what a render or a frame produced.
Commit(r) ==
    /\ currentState' = r.cur
    /\ previousState' = r.prev
    /\ activeOscillators' = r.osc
    /\ voices' = r.voices
    /\ lastTickGrid' = r.last

params == <<threshold, brightness, contrast, mirrorCamera, soundEnabled, volume>>
camera == <<stream, cameraActive, startDisabled, pendingGetUserMedia, metadataPending,
            stopped>>
driver == <<animationFrameId, rafCallbacks, updateInterval, intervalTimers>>
grid == <<currentState, previousState, lastTickGrid>>
pool == <<activeOscillators, voices>>
fixed == <<variant, scene, grayAbove, constructed, audioContext, tones, pass, flipDisc>>

\* The cells a frame would turn on that are off in previousState.
WouldActivate(raw) ==
    {i \in Cells : /\ ThresholdPixel(Sampled(raw)[i], threshold, brightness, contrast)
                   /\ ~previousState[i]}

NewId(used) == CHOOSE n \in 1 .. (Cardinality(used) + 1) :
                   n \notin used /\ \A m \in 1 .. (n - 1) : m \in used

----------------------------------------------------------------------------
(* Pitch: the frequency playDroneSound gives the oscillator of a row. *)

\* The three copies of playDroneSound.
PitchSources == {"script.js", "part_000", "part_001"}

minFreq(source) ==
    IF source = "script.js" THEN 60 ELSE IF source = "part_000" THEN 80 ELSE 30

maxFreq(source) ==
    IF source = "script.js" THEN 800 ELSE IF source = "part_000" THEN 600 ELSE 4000

\* -x
NumberNeg(x) == [x EXCEPT !.neg = ~x.neg]

\* row / this.rows
RowRatio(row, nrows) == NumberDiv(row, nrows)

\* The mapping turned upside down: the ratio without the `1 -`.
normalizedRowAscending(row, nrows) == RowRatio(row, nrows)

\* const normalizedRow = 1 - (row / this.rows)
normalizedRow(row, nrows) ==
    NumberAdd(NumberOf(1), NumberNeg(RowRatio(row, nrows)))

\* minFreq + (maxFreq - minFreq) * normalizedRow, each operation rounded.
LinearFrequency(source, row, nrows) ==
    NumberAdd(NumberOf(minFreq(source)),
              NumberMul(NumberOf(maxFreq(source) - minFreq(source)),
                        normalizedRow(row, nrows)))

RECURSIVE BigPow(_, _)
BigPow(a, n) == IF n = 0 THEN <<1>> ELSE BigMul(a, BigPow(a, n - 1))

\* The integer root is found RootStep binary digits at a time.
RootStep == 4

\* r with the digit d put at binary place bit.
WithDigit(r, d, bit) == IF d = 0 THEN r ELSE BigAdd(r, BigShl(BigOf(d), bit))

\* c^n <= x
PowerWithin(c, n, x) == c = << >> \/ BigCmp(Trim(BigPow(c, n)), x) <= 0

RECURSIVE RootFrom(_, _, _, _)
RootFrom(x, n, r, bit) ==
    IF bit < 0 THEN r
    ELSE LET digit == CHOOSE d \in 0 .. (2 ^ RootStep - 1) :
                          /\ PowerWithin(WithDigit(r, d, bit), n, x)
                          /\ \/ d = 2 ^ RootStep - 1
                             \/ ~PowerWithin(WithDigit(r, d + 1, bit), n, x)
         IN  RootFrom(x, n, WithDigit(r, digit, bit), bit - RootStep)

\* floor of the n-th root of x.
BigRoot(x, n) == RootFrom(x, n, << >>, RootStep * ((BitLen(x) \div n) \div RootStep))

\* The binary places the value of Math.pow is pinned down to.
PowBits == 20

\* floor(2^PowBits * minFreq * (maxFreq / minFreq) ^ ((nrows - row) / nrows)),
\* the real value of the expression of part_001: its nrows-th power is
\* minFreq^row * maxFreq^(nrows - row).
ExponentialFloor(source, row, nrows) ==
    BigRoot(BigShl(BigMul(BigPow(BigOf(minFreq(source)), row),
                          BigPow(BigOf(maxFreq(source)), nrows - row)),
                   PowBits * nrows),
            nrows)

\* minFreq * Math.pow(maxFreq / minFreq, normalizedRow). Math.pow is
\* implementation-approximated: with the exponent 1 (row 0) it returns its
\* base, otherwise any Number within an ulp or so of the real power. The
\* roundings of the quotient, of normalizedRow and of the product add up to
\* less than 2^-37 here, so the frequency is one of the Numbers from lo to hi.
ExponentialFrequency(source, row, nrows) ==
    IF row = 0
    THEN LET f == NumberMul(NumberOf(minFreq(source)),
                            NumberDiv(maxFreq(source), minFreq(source)))
         IN  [lo |-> f, hi |-> f]
    ELSE LET root == ExponentialFloor(source, row, nrows)
         IN  [lo |-> [neg |-> FALSE, mag |-> BigSub(root, <<1>>), scale |-> PowBits],
              hi |-> [neg |-> FALSE, mag |-> BigAdd(root, <<2>>), scale |-> PowBits]]

\* const frequency: the Numbers it may be, from lo to hi.
Frequency(source, row, nrows) ==
    IF source = "part_001"
    THEN ExponentialFrequency(source, row, nrows)
    ELSE LET f == LinearFrequency(source, row, nrows) IN [lo |-> f, hi |-> f]

\* x >= y
NumberAtLeast(x, y) == ~NumberGreater(y, x)

\* No frequency has been computed.
NoTones == [source |-> "part_000", rows |-> rows, frequency |-> EmptyMap]

----------------------------------------------------------------------------
(* renderDots on a grid of any size: which of the cells it calls
   playDroneSound for get a voice.  acc holds the grid's size, the voice
   limit, the cells that trigger (lit, unlit in previousState, and lucky with
   Math.random), the keys in activeOscillators and the cells voiced so far. *)

\* playDroneSound(row, col) with sound enabled, up to activeOscillators.set.
RenderDotsPlay(acc, row, col) ==
    IF Cardinality(acc.osc) >= acc.max THEN acc
    ELSE IF Key(row, col) \in acc.osc THEN acc
    ELSE [acc EXCEPT !.osc = @ \cup {Key(row, col)},
                     !.voiced = Append(@, <<row, col>>)]

\* The body of the inner loop.
RenderDotsCell(acc, row, col) ==
    IF <<row, col>> \in acc.triggered THEN RenderDotsPlay(acc, row, col) ELSE acc

\* for (let col = 0; col < this.cols; col++)
RECURSIVE RenderDotsCols(_, _, _)
RenderDotsCols(acc, row, col) ==
    IF col >= acc.cols THEN acc
    ELSE RenderDotsCols(RenderDotsCell(acc, row, col), row, col + 1)

\* for (let row = 0; row < this.rows; row++)
RECURSIVE RenderDotsRows(_, _)
RenderDotsRows(acc, row) ==
    IF row >= acc.rows THEN acc
    ELSE RenderDotsRows(RenderDotsCols(acc, row, 0), row + 1)

\* The loops nested the other way round: columns outside, rows inside.
RECURSIVE RenderDotsDown(_, _, _)
RenderDotsDown(acc, row, col) ==
    IF row >= acc.rows THEN acc
    ELSE RenderDotsDown(RenderDotsCell(acc, row, col), row + 1, col)

RECURSIVE RenderDotsAcross(_, _)
RenderDotsAcross(acc, col) ==
    IF col >= acc.cols THEN acc
    ELSE RenderDotsAcross(RenderDotsDown(acc, 0, col), col + 1)

RenderDotsColumnsFirst(acc) == RenderDotsAcross(acc, 0)

\* The two loops of renderDots.
RenderDotsLoops(acc) == RenderDotsRows(acc, 0)

\* No renderDots on a grid of its own.
NoPass == [rows |-> rows, cols |-> cols, max |-> maxOscillators, triggered |-> {},
           live |-> {}, osc |-> {}, voiced |-> << >>, done |-> FALSE]

----------------------------------------------------------------------------
(* FlipDiscDisplay (script.js, lines 1-358): a grid of discs, the timers
   its patterns and texts set, and its scroll timer.  The object and the
   timers of the page are the record flipDisc:
     discs          discs[i].state, a JavaScript value
     flipping       discs[i].element has the class 'flipping'
     scrollInterval this.scrollInterval, 0 for null
     timers         the timers set and not yet cleared or spent, in the
                    order they were set; `left` is the time in ms until
                    the timer is due
     shown          history: the text of the last displayText, and whether
                    an operation was invoked since
     invoked        history: the operations invoked so far *)

\* The grid: `new FlipDiscDisplay(cols, rows)`.
DiscCols == 2
DiscRows == 1
Discs == 0 .. (DiscCols * DiscRows - 1)
DiscRow(i) == i \div DiscCols
DiscCol(i) == i % DiscCols

\* The operations invoked on one display.
MaxDiscOps == 2

animationSpeed == 200

\* JavaScript values: booleans and numbers.
JsBoolean(b) == [type |-> "boolean", value |-> IF b THEN 1 ELSE 0]
JsNumber(n) == [type |-> "number", value |-> n]
JsTrue == JsBoolean(TRUE)
JsFalse == JsBoolean(FALSE)

\* a !== b: values of different types are never strictly equal.
StrictNotEqual(a, b) == a.type # b.type \/ a.value # b.value

\* !a
JsNot(a) == JsBoolean(a.value = 0)

\* a ? true : false
Truthy(a) == a.value # 0

\* The 5x7 font of textToBitmap, for the characters of the texts in play.
font ==
    [ch \in {"A", "C", "D", "F", "I", "L", "P", "S", " "} |->
        CASE ch = "A" -> << <<0,1,1,1,0>>, <<1,0,0,0,1>>, <<1,0,0,0,1>>, <<1,1,1,1,1>>,
                            <<1,0,0,0,1>>, <<1,0,0,0,1>>, <<1,0,0,0,1>> >>
          [] ch = "C" -> << <<0,1,1,1,1>>, <<1,0,0,0,0>>, <<1,0,0,0,0>>, <<1,0,0,0,0>>,
                            <<1,0,0,0,0>>, <<1,0,0,0,0>>, <<0,1,1,1,1>> >>
          [] ch = "D" -> << <<1,1,1,1,0>>, <<1,0,0,0,1>>, <<1,0,0,0,1>>, <<1,0,0,0,1>>,
                            <<1,0,0,0,1>>, <<1,0,0,0,1>>, <<1,1,1,1,0>> >>
          [] ch = "F" -> << <<1,1,1,1,1>>, <<1,0,0,0,0>>, <<1,0,0,0,0>>, <<1,1,1,1,0>>,
                            <<1,0,0,0,0>>, <<1,0,0,0,0>>, <<1,0,0,0,0>> >>
          [] ch = "I" -> << <<1,1,1,1,1>>, <<0,0,1,0,0>>, <<0,0,1,0,0>>, <<0,0,1,0,0>>,
                            <<0,0,1,0,0>>, <<0,0,1,0,0>>, <<1,1,1,1,1>> >>
          [] ch = "L" -> << <<1,0,0,0,0>>, <<1,0,0,0,0>>, <<1,0,0,0,0>>, <<1,0,0,0,0>>,
                            <<1,0,0,0,0>>, <<1,0,0,0,0>>, <<1,1,1,1,1>> >>
          [] ch = "P" -> << <<1,1,1,1,0>>, <<1,0,0,0,1>>, <<1,0,0,0,1>>, <<1,1,1,1,0>>,
                            <<1,0,0,0,0>>, <<1,0,0,0,0>>, <<1,0,0,0,0>> >>
          [] ch = "S" -> << <<0,1,1,1,1>>, <<1,0,0,0,0>>, <<1,0,0,0,0>>, <<0,1,1,1,0>>,
                            <<0,0,0,0,1>>, <<0,0,0,0,1>>, <<1,1,1,1,0>> >>
          [] OTHER    -> << <<0,0,0,0,0>>, <<0,0,0,0,0>>, <<0,0,0,0,0>>, <<0,0,0,0,0>>,
                            <<0,0,0,0,0>>, <<0,0,0,0,0>>, <<0,0,0,0,0>> >>]

\* text.toUpperCase(), character by character; a text is a sequence of
\* characters.
toUpperCase(ch) ==
    CASE ch = "a" -> "A" [] ch = "c" -> "C" [] ch = "d" -> "D" [] ch = "f" -> "F"
      [] ch = "i" -> "I" [] ch = "l" -> "L" [] ch = "p" -> "P" [] ch = "s" -> "S"
      [] OTHER -> ch

\* font[char] || font[' ']
charBitmap(ch) == IF ch \in DOMAIN font THEN font[ch] ELSE font[" "]

\* Row `row` (from 1) of the bitmap: each character's row and a column of
\* spacing.
RECURSIVE bitmapRow(_, _)
bitmapRow(text, row) ==
    IF text = << >> THEN << >>
    ELSE charBitmap(toUpperCase(Head(text)))[row] \o <<0>> \o bitmapRow(Tail(text), row)

\* textToBitmap(text): seven rows, padded with empty rows to the height of
\* the display.
textToBitmap(text) ==
    [r \in 1 .. (IF DiscRows > 7 THEN DiscRows ELSE 7) |->
        IF r <= 7 THEN bitmapRow(text, r)
        ELSE [c \in 1 .. Len(bitmapRow(text, 1)) |-> 0]]

\* setTimeout(callback, left) and setInterval(callback, left): the timer
\* set.  `kind` names the callback, the other fields are what it closes over.
Timer(kind, left, index, state, id, text, offset) ==
    [kind |-> kind, left |-> left, index |-> index, state |-> state,
     id |-> id, text |-> text, offset |-> offset]

Timeout(kind, left, index, state) == Timer(kind, left, index, state, 0, << >>, 0)

\* toggleDisc(index, animate).  The sound of playFlipSound is an oscillator
\* the program keeps no reference to.
toggleDisc(d, index, animate) ==
    [d EXCEPT !.discs[index] = JsNot(@),
              !.flipping[index] = IF animate THEN TRUE ELSE @,
              !.timers = IF animate
                         THEN Append(@, Timeout("removeFlipping", 300, index, JsFalse))
                         ELSE @]

\* setDisc(index, state, animate)
setDisc(d, index, state, animate) ==
    IF StrictNotEqual(d.discs[index], state) THEN toggleDisc(d, index, animate) ELSE d

\* setDisc(index, state(index), false) for the discs from i on.
RECURSIVE setDiscsFrom(_, _, _)
setDiscsFrom(d, state, i) ==
    IF i \notin Discs THEN d
    ELSE setDiscsFrom(setDisc(d, i, state[i], FALSE), state, i + 1)

\* The timers of a forEach over the discs that sets one timeout per disc.
ForEachTimeout(kind, left, state) ==
    [p \in 1 .. Cardinality(Discs) |-> Timeout(kind, left[p - 1], p - 1, state[p - 1])]

\* The delays Math.random() * range can give a timer: the ends of the range.
RandomDelays(range) == {0, range - 1}

\* clear(true) and fill(true)
setAll(d, state, left) ==
    [d EXCEPT !.timers = @ \o ForEachTimeout("setDisc", left, [i \in Discs |-> state])]

\* clear(false)
clear(d) == setDiscsFrom(d, [i \in Discs |-> JsFalse], 0)

\* random()
random(d, left) ==
    [d EXCEPT !.timers = @ \o ForEachTimeout("random", left, [i \in Discs |-> JsFalse])]

\* checkerboard()
checkerboard(d) ==
    [d EXCEPT !.timers = @ \o ForEachTimeout("setDisc", [i \in Discs |-> i * 10],
                               [i \in Discs |-> JsBoolean((DiscRow(i) + DiscCol(i)) % 2 = 0)])]

\* wave(): the timeouts are set column by column.
waveOrder ==
    [p \in 1 .. Cardinality(Discs) |->
        DiscCols * ((p - 1) % DiscRows) + ((p - 1) \div DiscRows)]

wave(d) ==
    [d EXCEPT !.timers = @ \o [p \in 1 .. Cardinality(Discs) |->
                                  Timeout("wave", DiscCol(waveOrder[p]) * 50,
                                          waveOrder[p], JsTrue)]]

\* clearInterval(id)
clearInterval(timers, id) == SelectSeq(timers, LAMBDA t : t.id # id)

\* setInterval: the handle of the timer set.
NewHandle(timers) ==
    CHOOSE id \in 1 .. (Len(timers) + 1) : \A p \in 1 .. Len(timers) : timers[p].id # id

\* The timeouts of displayText: one per pixel of the bitmap that is on the
\* grid, in row-major order.
textTimeouts(bitmap) ==
    LET all == [p \in 1 .. Cardinality(Discs) |->
                   Timeout("setDisc", (p - 1) * 5, p - 1,
                           IF DiscCol(p - 1) < Len(bitmap[1])
                           THEN JsNumber(bitmap[DiscRow(p - 1) + 1][DiscCol(p - 1) + 1])
                           ELSE JsFalse)]
    IN  SelectSeq(all, LAMBDA t : DiscRow(t.index) < Len(bitmap)
                                  /\ DiscCol(t.index) < Len(bitmap[1]))

\* displayText(text)
displayText(d, text) ==
    LET halted == IF d.scrollInterval # 0
                  THEN [d EXCEPT !.timers = clearInterval(@, d.scrollInterval),
                                 !.scrollInterval = 0]
                  ELSE d
        blank == clear(halted)
    IN  [blank EXCEPT !.timers = @ \o textTimeouts(textToBitmap(text)),
                      !.shown = [called |-> TRUE, text |-> text]]

\* The interval timer of scrollTextContinuous(text): its bitmap is that of
\* text + '   ', its offset starts at 0.
scrollTimer(timers, text) ==
    Timer("scroll", 150, 0, JsFalse, NewHandle(timers), text \o <<" ", " ", " ">>, 0)

\* scrollTextContinuous with its clearInterval left out.
scrollTextContinuousKeepsTimer(d, text) ==
    LET timer == scrollTimer(d.timers, text)
    IN  [d EXCEPT !.timers = Append(@, timer),
                  !.scrollInterval = timer.id,
                  !.shown.called = FALSE]

\* scrollTextContinuous(text)
scrollTextContinuous(d, text) ==
    LET kept == IF d.scrollInterval # 0 THEN clearInterval(d.timers, d.scrollInterval)
                ELSE d.timers
        timer == scrollTimer(kept, text)
    IN  [d EXCEPT !.timers = Append(kept, timer),
                  !.scrollInterval = timer.id,
                  !.shown.called = FALSE]

\* One run of the scroll timer's callback.
scrollStep(d, t) ==
    LET bitmap == textToBitmap(t.text)
        width == Len(bitmap[1])
        state == [i \in Discs |->
                     JsBoolean(DiscRow(i) < Len(bitmap)
                               /\ bitmap[DiscRow(i) + 1][((DiscCol(i) + t.offset) % width) + 1] # 0)]
    IN  setDiscsFrom(d, state, 0)

\* The position of the timer that is due first: the least time left and,
\* among equals, the one set first.
Due(timers) ==
    CHOOSE p \in 1 .. Len(timers) :
        \A q \in 1 .. Len(timers) :
            timers[p].left < timers[q].left \/ (timers[p].left = timers[q].left /\ p <= q)

\* The timers when the timer at position p comes due: the time it had left
\* has passed for all; a timeout is spent, an interval is set again.
Elapsed(timers, p, again) ==
    LET later == [q \in 1 .. Len(timers) |->
                     [timers[q] EXCEPT !.left = IF q = p THEN again ELSE @ - timers[p].left]]
    IN  IF again > 0 THEN later
        ELSE SubSeq(later, 1, p - 1) \o SubSeq(later, p + 1, Len(later))

\* The display as `new FlipDiscDisplay()` and the load handler leave it: the
\* timeout of the welcome text is set.
NewFlipDiscDisplay ==
    [discs |-> [i \in Discs |-> JsFalse],
     flipping |-> [i \in Discs |-> FALSE],
     scrollInterval |-> 0,
     timers |-> <<Timer("welcome", 500, 0, JsFalse, 0,
                        <<"F", "L", "I", "P", " ", "D", "I", "S", "C">>, 0)>>,
     shown |-> [called |-> FALSE, text |-> << >>],
     invoked |-> 0]

----------------------------------------------------------------------------
\* The display as its constructor leaves it.
NewDisplay ==
    /\ variant \in Variants
    /\ scene = Samples
    /\ grayAbove = GrayAboveTable(Samples, {128} \cup Parsed(ThresholdInputs),
                                  {0} \cup Parsed(BrightnessInputs),
                                  {100} \cup Parsed(ContrastInputs))
    /\ constructed \in BOOLEAN
    /\ audioContext = constructed
    /\ currentState = [i \in Cells |-> FALSE]
    /\ previousState = [i \in Cells |-> FALSE]
    /\ stream = FALSE
    /\ cameraActive = FALSE
    /\ startDisabled = FALSE
    /\ pendingGetUserMedia = 0
    /\ metadataPending = FALSE
    /\ videoReadyState = 0
    /\ animationFrameId = 0
    /\ rafCallbacks = {}
    /\ updateInterval = 0
    /\ intervalTimers = {}
    /\ threshold = 128
    /\ brightness = 0
    /\ contrast = 100
    /\ mirrorCamera = TRUE
    /\ soundEnabled = TRUE
    /\ volume = IF variant = "dom" THEN 30 ELSE 20
    /\ activeOscillators = EmptyMap
    /\ voices = {}
    /\ lastTickGrid = [i \in Cells |-> FALSE]
    /\ stopped = FALSE

Init ==
    /\ NewDisplay
    /\ tones = NoTones
    /\ pass = NoPass
    /\ flipDisc = NewFlipDiscDisplay

----------------------------------------------------------------------------
(* The camera. *)

\* startCamera up to its await: the getUserMedia request is pending.
\* At most `limit` requests are let be pending at once.
StartCameraUpTo(limit) ==
    /\ constructed
    /\ ~startDisabled
    /\ pendingGetUserMedia < limit
    /\ pendingGetUserMedia' = pendingGetUserMedia + 1
    /\ stopped' = FALSE
    /\ UNCHANGED <<fixed, grid, pool, params, driver, stream, cameraActive,
                   startDisabled, metadataPending, videoReadyState>>

StartCamera == StartCameraUpTo(MaxPendingGrants)

\* getUserMedia resolves: the rest of startCamera's try block.
\* Setting video.srcObject restarts the media element (readyState 0).
GrantCamera ==
    /\ constructed
    /\ pendingGetUserMedia > 0
    /\ pendingGetUserMedia' = pendingGetUserMedia - 1
    /\ stream' = TRUE
    /\ cameraActive' = TRUE
    /\ startDisabled' = TRUE
    /\ metadataPending' = TRUE
    /\ videoReadyState' = 0
    /\ UNCHANGED <<fixed, grid, pool, params, driver, stopped>>

\* Fault: a catch block that carries on as if the request had been granted.
DenyCameraStartsAnyway ==
    /\ constructed
    /\ pendingGetUserMedia > 0
    /\ pendingGetUserMedia' = pendingGetUserMedia - 1
    /\ cameraActive' = TRUE
    /\ startDisabled' = TRUE
    /\ metadataPending' = TRUE
    /\ UNCHANGED <<fixed, grid, pool, params, driver, stream, videoReadyState, stopped>>

\* getUserMedia rejects: startCamera's catch block (console.error, alert).
DenyCamera ==
    /\ constructed
    /\ pendingGetUserMedia > 0
    /\ pendingGetUserMedia' = pendingGetUserMedia - 1
    /\ UNCHANGED <<fixed, grid, pool, params, driver, stream, cameraActive,
                   startDisabled, metadataPending, videoReadyState, stopped>>

\* The media element reports a new readyState for the attached stream.
VideoReadyStateChange(r) ==
    /\ constructed
    /\ stream
    /\ videoReadyState' = r
    /\ UNCHANGED <<fixed, grid, pool, params, driver, stream, cameraActive,
                   startDisabled, pendingGetUserMedia, metadataPending, stopped>>

\* Fault: stopCamera also emptying activeOscillators.
StopCameraClearsVoices ==
    /\ constructed
    /\ stream' = FALSE
    /\ cameraActive' = FALSE
    /\ IF variant = "canvas"
       THEN /\ rafCallbacks' = IF animationFrameId # 0
                               THEN rafCallbacks \ {animationFrameId}
                               ELSE rafCallbacks
            /\ animationFrameId' = 0
            /\ UNCHANGED <<updateInterval, intervalTimers>>
       ELSE /\ intervalTimers' = IF updateInterval # 0
                                 THEN intervalTimers \ {updateInterval}
                                 ELSE intervalTimers
            /\ updateInterval' = 0
            /\ UNCHANGED <<animationFrameId, rafCallbacks>>
    /\ startDisabled' = FALSE
    /\ stopped' = TRUE
    /\ activeOscillators' = EmptyMap
    /\ voices' = {}
    /\ UNCHANGED <<fixed, grid, params, pendingGetUserMedia, metadataPending,
                   videoReadyState>>

\* A stopCamera that blanks the display.
StopCameraBlanksGrid ==
    /\ constructed
    /\ stream' = FALSE
    /\ cameraActive' = FALSE
    /\ IF variant = "canvas"
       THEN /\ rafCallbacks' = IF animationFrameId # 0
                               THEN rafCallbacks \ {animationFrameId}
                               ELSE rafCallbacks
            /\ animationFrameId' = 0
            /\ UNCHANGED <<updateInterval, intervalTimers>>
       ELSE /\ intervalTimers' = IF updateInterval # 0
                                 THEN intervalTimers \ {updateInterval}
                                 ELSE intervalTimers
            /\ updateInterval' = 0
            /\ UNCHANGED <<animationFrameId, rafCallbacks>>
    /\ startDisabled' = FALSE
    /\ stopped' = TRUE
    /\ currentState' = [i \in Cells |-> FALSE]
    /\ previousState' = [i \in Cells |-> FALSE]
    /\ UNCHANGED <<fixed, lastTickGrid, pool, params, pendingGetUserMedia,
                   metadataPending, videoReadyState>>

StopCamera ==
    /\ constructed
    /\ stream' = FALSE
    /\ cameraActive' = FALSE
    /\ IF variant = "canvas"
       THEN /\ rafCallbacks' = IF animationFrameId # 0
                               THEN rafCallbacks \ {animationFrameId}
                               ELSE rafCallbacks
            /\ animationFrameId' = 0
            /\ UNCHANGED <<updateInterval, intervalTimers>>
       ELSE /\ intervalTimers' = IF updateInterval # 0
                                 THEN intervalTimers \ {updateInterval}
                                 ELSE intervalTimers
            /\ updateInterval' = 0
            /\ UNCHANGED <<animationFrameId, rafCallbacks>>
    /\ startDisabled' = FALSE
    /\ stopped' = TRUE
    /\ UNCHANGED <<fixed, grid, pool, params, pendingGetUserMedia, metadataPending,
                   videoReadyState>>

----------------------------------------------------------------------------
(* The processing loop. *)

\* A loop that ends with the first frame it skips: no animation frame is
\* requested when the source is not ready.
ProcessLoopEndsOnSkip(left) ==
    IF NotReady
    THEN /\ rafCallbacks' = left
         /\ UNCHANGED <<grid, pool, animationFrameId>>
    ELSE /\ \E raw \in Frames : \E lucky \in SUBSET WouldActivate(raw) :
                \E now \in AudioTimes : Commit(ProcessFrameCanvas(raw, lucky, now))
         /\ LET id == NewId(left \cup {animationFrameId})
            IN  /\ animationFrameId' = id
                /\ rafCallbacks' = left \cup {id}

\* canvas: the body of processLoop, entered with the callbacks in `left` still
\* scheduled: one frame, then the next animation frame is requested.
ProcessLoop(left) ==
    IF ~cameraActive
    THEN /\ rafCallbacks' = left
         /\ UNCHANGED <<grid, pool, animationFrameId>>
    ELSE /\ \E raw \in Frames : \E lucky \in SUBSET WouldActivate(raw) :
                \E now \in AudioTimes : Commit(ProcessFrameCanvas(raw, lucky, now))
         /\ LET id == NewId(left \cup {animationFrameId})
            IN  /\ animationFrameId' = id
                /\ rafCallbacks' = left \cup {id}

\* dom: startProcessing.
StartProcessingDom ==
    LET left == IF updateInterval # 0 THEN intervalTimers \ {updateInterval}
                ELSE intervalTimers
        id == NewId(left)
    IN  /\ updateInterval' = id
        /\ intervalTimers' = left \cup {id}

\* video.onloadedmetadata: startProcessing (canvas: after video.play()).
\* At most `limit` callbacks are let be scheduled at once.
LoadedMetadataUpTo(limit) ==
    /\ constructed
    /\ metadataPending
    /\ videoReadyState >= 1
    /\ metadataPending' = FALSE
    /\ IF variant = "canvas"
       THEN /\ Cardinality(rafCallbacks) < limit
            /\ ProcessLoop(rafCallbacks)
            /\ UNCHANGED <<updateInterval, intervalTimers>>
       ELSE /\ StartProcessingDom
            /\ UNCHANGED <<grid, pool, animationFrameId, rafCallbacks>>
    /\ UNCHANGED <<fixed, params, stream, cameraActive, startDisabled,
                   pendingGetUserMedia, videoReadyState, stopped>>

LoadedMetadata == LoadedMetadataUpTo(MaxRafCallbacks)

\* canvas: the browser runs a scheduled processLoop callback.
AnimationFrame(id) ==
    /\ constructed
    /\ variant = "canvas"
    /\ id \in rafCallbacks
    /\ ProcessLoop(rafCallbacks \ {id})
    /\ UNCHANGED <<fixed, params, camera, videoReadyState, updateInterval, intervalTimers>>

\* dom: a setInterval timer fires: processFrame.
IntervalTick(id) ==
    /\ constructed
    /\ variant = "dom"
    /\ id \in intervalTimers
    /\ \E raw \in Frames : \E now \in AudioTimes : Commit(ProcessFrameDom(raw, now))
    /\ UNCHANGED <<fixed, params, camera, driver, videoReadyState>>

----------------------------------------------------------------------------
(* The control surface. *)

Setter ==
    /\ constructed
    /\ UNCHANGED <<fixed, grid, pool, camera, driver, videoReadyState>>

SetThreshold(value) ==
    /\ Setter
    /\ threshold' = ParseInt(value)
    /\ UNCHANGED <<brightness, contrast, mirrorCamera, soundEnabled, volume>>

SetBrightness(value) ==
    /\ Setter
    /\ brightness' = ParseInt(value)
    /\ UNCHANGED <<threshold, contrast, mirrorCamera, soundEnabled, volume>>

SetContrast(value) ==
    /\ Setter
    /\ contrast' = ParseInt(value)
    /\ UNCHANGED <<threshold, brightness, mirrorCamera, soundEnabled, volume>>

\* Fault: setSoundEnabled(false) stopping the oscillators in flight.
SetSoundEnabledSilences(enabled) ==
    /\ constructed
    /\ soundEnabled' = enabled
    /\ IF enabled THEN UNCHANGED pool
       ELSE /\ activeOscillators' = EmptyMap
            /\ voices' = {[v EXCEPT !.duration = 0] : v \in voices}
    /\ UNCHANGED <<fixed, grid, camera, driver, videoReadyState>>
    /\ UNCHANGED <<threshold, brightness, contrast, mirrorCamera, volume>>

\* initAudio finds audioContext set and does nothing.
SetSoundEnabled(enabled) ==
    /\ Setter
    /\ soundEnabled' = enabled
    /\ UNCHANGED <<threshold, brightness, contrast, mirrorCamera, volume>>

\* this.volume = value / 100, copied to masterGain.gain.value.
SetVolume(value) ==
    /\ Setter
    /\ volume' = ToNumber(value)
    /\ UNCHANGED <<threshold, brightness, contrast, mirrorCamera, soundEnabled>>

SetMirror(enabled) ==
    /\ Setter
    /\ mirrorCamera' = enabled
    /\ UNCHANGED <<threshold, brightness, contrast, soundEnabled, volume>>

\* dom only.
SetUpdateSpeed ==
    /\ constructed
    /\ variant = "dom"
    /\ IF cameraActive THEN StartProcessingDom
       ELSE UNCHANGED <<updateInterval, intervalTimers>>
    /\ UNCHANGED <<fixed, grid, pool, params, camera, videoReadyState,
                   animationFrameId, rafCallbacks>>

\* A setDotSize whose redraw takes every lit cell for newly lit.
SetDotSizeRetriggers ==
    /\ constructed
    /\ variant = "canvas"
    /\ \E lucky \in SUBSET {i \in Cells : currentState[i]} :
           \E now \in AudioTimes :
               Commit(RenderDots([Here EXCEPT !.now = now,
                                              !.prev = [i \in Cells |-> FALSE]], lucky))
    /\ UNCHANGED <<fixed, params, camera, driver, videoReadyState>>

\* A setDotSize that redraws from a blank grid, as if resizing the canvas
\* had cleared currentState.
SetDotSizeBlanks ==
    /\ constructed
    /\ variant = "canvas"
    /\ \E now \in AudioTimes :
           Commit(RenderDots([Here EXCEPT !.now = now,
                                          !.cur = [i \in Cells |-> FALSE]], {}))
    /\ UNCHANGED <<fixed, params, camera, driver, videoReadyState>>

\* canvas only: the canvas is resized and renderDots runs outside a frame.
SetDotSize ==
    /\ constructed
    /\ variant = "canvas"
    /\ \E lucky \in SUBSET {i \in Cells : currentState[i] /\ ~previousState[i]} :
           \E now \in AudioTimes : Commit(RenderDots([Here EXCEPT !.now = now], lucky))
    /\ UNCHANGED <<fixed, params, camera, driver, videoReadyState>>

----------------------------------------------------------------------------
(* The audio clock. *)

\* Fault: an onended closure that leaves its entry in activeOscillators.
OnEndedKeepsEntry(v) ==
    /\ constructed
    /\ v \in voices
    /\ UNCHANGED vars

\* An onended closure that empties the Map instead of deleting its own key.
OnEndedClearsMap(v) ==
    /\ constructed
    /\ v \in voices
    /\ activeOscillators' = EmptyMap
    /\ voices' = voices \ {v}
    /\ UNCHANGED <<fixed, grid, params, camera, driver, videoReadyState>>

\* oscillator.onended of voice v: this.activeOscillators.delete(key).
OnEnded(v) ==
    /\ constructed
    /\ v \in voices
    /\ activeOscillators' = MapDelete(activeOscillators, v.key)
    /\ voices' = voices \ {v}
    /\ UNCHANGED <<fixed, grid, params, camera, driver, videoReadyState>>

----------------------------------------------------------------------------
Next ==
    \/ StartCamera
    \/ GrantCamera
    \/ DenyCamera
    \/ \E r \in ReadyStates : VideoReadyStateChange(r)
    \/ StopCamera
    \/ LoadedMetadata
    \/ \E id \in rafCallbacks : AnimationFrame(id)
    \/ \E id \in intervalTimers : IntervalTick(id)
    \/ \E value \in ThresholdInputs : SetThreshold(value)
    \/ \E value \in BrightnessInputs : SetBrightness(value)
    \/ \E value \in ContrastInputs : SetContrast(value)
    \/ \E enabled \in BOOLEAN : SetSoundEnabled(enabled)
    \/ \E value \in VolumeInputs : SetVolume(value)
    \/ \E enabled \in BOOLEAN : SetMirror(enabled)
    \/ SetUpdateSpeed
    \/ SetDotSize
    \/ \E v \in voices : OnEnded(v)

Spec == Init /\ [][Next]_vars

\* The voices playDroneSound can start.
PossibleVoices ==
    [id : {1}, key : {Key(RowOf(i), ColOf(i)) : i \in Cells}, start : AudioTimes,
     duration : {250, 300}]

\* The audio clock keeps advancing: a started oscillator reaches its stop time
\* and its onended callback is delivered.
AudioClockAdvances == \A v \in PossibleVoices : WF_vars(OnEnded(v))

SpecLive == Spec /\ AudioClockAdvances

----------------------------------------------------------------------------
(* Thresholding over a wider range of samples and slider values: the display
   with sound switched off and the processing loop running on a ready video. *)

InitThreshold ==
    /\ variant \in Variants
    /\ scene = ThresholdSamples
    /\ grayAbove = GrayAboveTable(ThresholdSamples, {128} \cup Parsed(ThresholdRange),
                                  {0} \cup Parsed(BrightnessRange),
                                  {100} \cup Parsed(ContrastRange))
    /\ constructed = TRUE
    /\ audioContext = TRUE
    /\ currentState = [i \in Cells |-> FALSE]
    /\ previousState = [i \in Cells |-> FALSE]
    /\ stream = TRUE
    /\ cameraActive = TRUE
    /\ startDisabled = TRUE
    /\ pendingGetUserMedia = 0
    /\ metadataPending = FALSE
    /\ videoReadyState = 2
    /\ animationFrameId = IF variant = "canvas" THEN 1 ELSE 0
    /\ rafCallbacks = IF variant = "canvas" THEN {1} ELSE {}
    /\ updateInterval = IF variant = "dom" THEN 1 ELSE 0
    /\ intervalTimers = IF variant = "dom" THEN {1} ELSE {}
    /\ threshold = 128
    /\ brightness = 0
    /\ contrast = 100
    /\ mirrorCamera = TRUE
    /\ soundEnabled = FALSE
    /\ volume = IF variant = "dom" THEN 30 ELSE 20
    /\ activeOscillators = EmptyMap
    /\ voices = {}
    /\ lastTickGrid = [i \in Cells |-> FALSE]
    /\ stopped = FALSE
    /\ tones = NoTones
    /\ pass = NoPass
    /\ flipDisc = NewFlipDiscDisplay

NextThreshold ==
    \/ \E id \in rafCallbacks : AnimationFrame(id)
    \/ \E id \in intervalTimers : IntervalTick(id)
    \/ \E value \in ThresholdRange : SetThreshold(value)
    \/ \E value \in BrightnessRange : SetBrightness(value)
    \/ \E value \in ContrastRange : SetContrast(value)
    \/ \E enabled \in BOOLEAN : SetMirror(enabled)

SpecThreshold == InitThreshold /\ [][NextThreshold]_vars

----------------------------------------------------------------------------
(* The setters called with arbitrary arguments, between the frames of a
   running display. *)

InitSetters ==
    /\ variant \in Variants
    /\ scene = Samples
    /\ grayAbove = GrayAboveTable(Samples, {128} \cup Parsed(SetterInputs),
                                  {0} \cup Parsed(SetterInputs),
                                  {100} \cup Parsed(SetterInputs))
    /\ constructed = TRUE
    /\ audioContext = TRUE
    /\ currentState = [i \in Cells |-> FALSE]
    /\ previousState = [i \in Cells |-> FALSE]
    /\ stream = TRUE
    /\ cameraActive = TRUE
    /\ startDisabled = TRUE
    /\ pendingGetUserMedia = 0
    /\ metadataPending = FALSE
    /\ videoReadyState = 2
    /\ animationFrameId = IF variant = "canvas" THEN 1 ELSE 0
    /\ rafCallbacks = IF variant = "canvas" THEN {1} ELSE {}
    /\ updateInterval = IF variant = "dom" THEN 1 ELSE 0
    /\ intervalTimers = IF variant = "dom" THEN {1} ELSE {}
    /\ threshold = 128
    /\ brightness = 0
    /\ contrast = 100
    /\ mirrorCamera = TRUE
    /\ soundEnabled = FALSE
    /\ volume = IF variant = "dom" THEN 30 ELSE 20
    /\ activeOscillators = EmptyMap
    /\ voices = {}
    /\ lastTickGrid = [i \in Cells |-> FALSE]
    /\ stopped = FALSE
    /\ tones = NoTones
    /\ pass = NoPass
    /\ flipDisc = NewFlipDiscDisplay

NextSetters ==
    \/ \E id \in rafCallbacks : AnimationFrame(id)
    \/ \E id \in intervalTimers : IntervalTick(id)
    \/ \E value \in SetterInputs : SetThreshold(value)
    \/ \E value \in SetterInputs : SetBrightness(value)
    \/ \E value \in SetterInputs : SetContrast(value)
    \/ \E value \in SetterInputs : SetVolume(value)

SpecSetters == InitSetters /\ [][NextSetters]_vars

(* The camera button pressed repeatedly: two requests may be pending and two
   callbacks scheduled at once; the sliders stay as constructed. *)

MaxRestartGrants == 2
MaxRestartCallbacks == 2

NextRestart ==
    \/ StartCameraUpTo(MaxRestartGrants)
    \/ GrantCamera
    \/ DenyCamera
    \/ \E r \in ReadyStates : VideoReadyStateChange(r)
    \/ StopCamera
    \/ LoadedMetadataUpTo(MaxRestartCallbacks)
    \/ \E id \in rafCallbacks : AnimationFrame(id)
    \/ \E id \in intervalTimers : IntervalTick(id)
    \/ SetUpdateSpeed
    \/ \E v \in voices : OnEnded(v)

SpecRestart == Init /\ [][NextRestart]_vars

(* The pitch mapping on its own: a display of tones.rows rows whose rows
   are sounded in any order. *)

\* The rows a display may have in the pitch specification.
MaxToneRows == 5

InitPitch ==
    /\ NewDisplay
    /\ constructed
    /\ tones \in {[source |-> s, rows |-> n, frequency |-> EmptyMap] :
                    s \in PitchSources, n \in 1 .. MaxToneRows}
    /\ variant = IF tones.source = "script.js" THEN "dom" ELSE "canvas"
    /\ pass = NoPass
    /\ flipDisc = NewFlipDiscDisplay

\* playDroneSound(row, col) up to `const frequency`.
PlayDroneSoundFrequency(row) ==
    /\ row < tones.rows
    /\ row \notin DOMAIN tones.frequency
    /\ tones' = [tones EXCEPT !.frequency =
                     MapSet(@, row, Frequency(tones.source, row, tones.rows))]
    /\ UNCHANGED <<variant, scene, grayAbove, constructed, audioContext, pass, flipDisc, grid,
                   pool, params, camera, driver, videoReadyState>>

NextPitch == \E row \in 0 .. (MaxToneRows - 1) : PlayDroneSoundFrequency(row)

SpecPitch == InitPitch /\ [][NextPitch]_vars

(* renderDots on its own: one call on a grid of up to MaxPassRows x
   MaxPassCols cells, for every set of triggering cells and every set of
   live voices within the limit. *)

MaxPassRows == 2
MaxPassCols == 2
MaxPassVoices == 2

PassInputs(n, m) ==
    {p \in {[rows |-> n, cols |-> m, max |-> x, triggered |-> t, live |-> l,
             osc |-> l, voiced |-> << >>, done |-> FALSE] :
                x \in 1 .. MaxPassVoices,
                t \in SUBSET ((0 .. (n - 1)) \X (0 .. (m - 1))),
                l \in SUBSET {Key(c[1], c[2]) : c \in (0 .. (n - 1)) \X (0 .. (m - 1))}} :
        Cardinality(p.live) <= p.max}

InitPass ==
    /\ NewDisplay
    /\ constructed
    /\ variant = "canvas"
    /\ tones = NoTones
    /\ pass \in UNION {PassInputs(n, m) : n \in 1 .. MaxPassRows, m \in 1 .. MaxPassCols}
    /\ flipDisc = NewFlipDiscDisplay

\* renderDots, from its first cell to its last.
RenderDotsOnGrid ==
    /\ ~pass.done
    /\ pass' = [RenderDotsLoops(pass) EXCEPT !.done = TRUE]
    /\ UNCHANGED <<variant, scene, grayAbove, constructed, audioContext, tones, flipDisc, grid,
                   pool, params, camera, driver, videoReadyState>>

NextPass == RenderDotsOnGrid

SpecPass == InitPass /\ [][NextPass]_vars

(* The FlipDiscDisplay on its own: up to MaxDiscOps of its operations
   invoked in any order and at any time between two timers, and the timers
   coming due in the order of their times. *)

\* The texts given to displayText and scrollTextContinuous.
Texts == {<< >>, <<"a">>}

InitDisc ==
    /\ NewDisplay
    /\ constructed
    /\ variant = "dom"
    /\ tones = NoTones
    /\ pass = NoPass
    /\ flipDisc = NewFlipDiscDisplay

cameraDisplay == <<variant, scene, grayAbove, constructed, audioContext, tones, pass, grid,
                   pool, params, camera, driver, videoReadyState>>

\* An operation can be invoked.
Invoked == flipDisc.invoked < MaxDiscOps

\* The display after an operation invoked by the user.
Counted(d) == [d EXCEPT !.invoked = @ + 1]

\* The display after an operation other than displayText.
Operated(d) == Counted([d EXCEPT !.shown.called = FALSE])

\* A click on disc i.
ClickDisc(i) ==
    /\ Invoked
    /\ flipDisc' = Operated(toggleDisc(flipDisc, i, TRUE))
    /\ UNCHANGED cameraDisplay

\* showPattern('clear'), key C
Clear ==
    /\ Invoked
    /\ \E left \in [Discs -> RandomDelays(animationSpeed)] :
          flipDisc' = Operated(setAll(flipDisc, JsFalse, left))
    /\ UNCHANGED cameraDisplay

\* showPattern('fill')
Fill ==
    /\ Invoked
    /\ \E left \in [Discs -> RandomDelays(animationSpeed)] :
          flipDisc' = Operated(setAll(flipDisc, JsTrue, left))
    /\ UNCHANGED cameraDisplay

\* showPattern('random'), key R
Random ==
    /\ Invoked
    /\ \E left \in [Discs -> RandomDelays(animationSpeed * 2)] :
          flipDisc' = Operated(random(flipDisc, left))
    /\ UNCHANGED cameraDisplay

\* showPattern('checkerboard')
Checkerboard ==
    /\ Invoked
    /\ flipDisc' = Operated(checkerboard(flipDisc))
    /\ UNCHANGED cameraDisplay

\* showPattern('wave')
Wave ==
    /\ Invoked
    /\ flipDisc' = Operated(wave(flipDisc))
    /\ UNCHANGED cameraDisplay

\* display.displayText(text)
DisplayText(text) ==
    /\ Invoked
    /\ flipDisc' = Counted(displayText(flipDisc, text))
    /\ UNCHANGED cameraDisplay

\* display.scrollTextContinuous(text)
ScrollText(text) ==
    /\ Invoked
    /\ flipDisc' = Counted(scrollTextContinuous(flipDisc, text))
    /\ UNCHANGED cameraDisplay

\* The timer due first is of this kind.
DueIs(kind) == flipDisc.timers # << >> /\ flipDisc.timers[Due(flipDisc.timers)].kind = kind

DueTimer == flipDisc.timers[Due(flipDisc.timers)]

\* The display when the timeout due first is spent.
Spent == [flipDisc EXCEPT !.timers = Elapsed(@, Due(flipDisc.timers), 0)]

\* The timeout of clear, fill, checkerboard, displayText or wave's second
\* step comes due: setDisc(index, state, true).
SetDiscTimeout ==
    /\ DueIs("setDisc")
    /\ flipDisc' = setDisc(Spent, DueTimer.index, DueTimer.state, TRUE)
    /\ UNCHANGED cameraDisplay

\* A timeout of random comes due: setDisc(index, Math.random() > 0.5, true).
RandomTimeout ==
    /\ DueIs("random")
    /\ \E b \in BOOLEAN : flipDisc' = setDisc(Spent, DueTimer.index, JsBoolean(b), TRUE)
    /\ UNCHANGED cameraDisplay

\* A timeout of wave comes due: the disc is set on and the timeout that
\* sets it off is set.
WaveTimeout ==
    /\ DueIs("wave")
    /\ flipDisc' = [setDisc(Spent, DueTimer.index, JsTrue, TRUE) EXCEPT
                       !.timers = Append(@, Timeout("setDisc", 300, DueTimer.index, JsFalse))]
    /\ UNCHANGED cameraDisplay

\* The timeout of toggleDisc comes due: the class 'flipping' is removed.
RemoveFlippingTimeout ==
    /\ DueIs("removeFlipping")
    /\ flipDisc' = [Spent EXCEPT !.flipping[DueTimer.index] = FALSE]
    /\ UNCHANGED cameraDisplay

\* The scroll timer comes due: the window of the bitmap at the offset is
\* shown and the offset moves on.
ScrollInterval ==
    /\ DueIs("scroll")
    /\ LET p == Due(flipDisc.timers)
           width == Len(textToBitmap(DueTimer.text)[1])
           set == [flipDisc EXCEPT
                     !.timers = [Elapsed(@, p, 150) EXCEPT
                                   ![p].offset = (@ + 1) % width]]
       IN  flipDisc' = scrollStep(set, DueTimer)
    /\ UNCHANGED cameraDisplay

\* The timeout of the load handler comes due: display.displayText('FLIP DISC').
WelcomeTimeout ==
    /\ DueIs("welcome")
    /\ flipDisc' = displayText(Spent, DueTimer.text)
    /\ UNCHANGED cameraDisplay

NextDisc ==
    \/ \E i \in Discs : ClickDisc(i)
    \/ Clear
    \/ Fill
    \/ Random
    \/ Checkerboard
    \/ Wave
    \/ \E text \in Texts : DisplayText(text)
    \/ \E text \in Texts : ScrollText(text)
    \/ SetDiscTimeout
    \/ RandomTimeout
    \/ WaveTimeout
    \/ RemoveFlippingTimeout
    \/ ScrollInterval
    \/ WelcomeTimeout

SpecDisc == InitDisc /\ [][NextDisc]_vars

TypeOK ==
    /\ variant \in Variants
    /\ scene \in {Samples, ThresholdSamples}
    /\ currentState \in [Cells -> BOOLEAN]
    /\ previousState \in [Cells -> BOOLEAN]
    /\ DOMAIN activeOscillators \subseteq {Key(RowOf(i), ColOf(i)) : i \in Cells}
    /\ flipDisc.discs \in [Discs -> {JsTrue, JsFalse}]
    /\ flipDisc.flipping \in [Discs -> BOOLEAN]
    /\ flipDisc.invoked \in 0 .. MaxDiscOps
    /\ \A p \in 1 .. Len(flipDisc.timers) :
          /\ flipDisc.timers[p].left \in Nat
          /\ flipDisc.timers[p].index \in Discs

----------------------------------------------------------------------------
(* What a tick can do from the current state. *)

\* A processing callback is scheduled or about to be started.
TickEnabled ==
    /\ constructed
    /\ \/ variant = "canvas" /\ rafCallbacks # {} /\ cameraActive
       \/ variant = "dom" /\ intervalTimers # {}

\* The runs of processFrame possible from the current state, one per frame
\* and per outcome of the random trigger choices.
TickRuns ==
    IF variant = "canvas"
    THEN UNION {{ProcessFrameCanvas(x[1], lucky, x[2]) :
                       lucky \in SUBSET WouldActivate(x[1])} :
                   x \in Frames \X AudioTimes}
    ELSE {ProcessFrameDom(x[1], x[2]) : x \in Frames \X AudioTimes}

\* A step of the processing loop: a scheduled callback runs, or the loop is
\* started (the canvas variants run processLoop at once).
TickStep ==
    \/ LoadedMetadata
    \/ \E id \in rafCallbacks : AnimationFrame(id)
    \/ \E id \in intervalTimers : IntervalTick(id)

\* The grid processFrame computes from the sampled frame of run r.
Thresholded(r) ==
    [i \in Cells |-> ThresholdPixel(r.data[i], threshold, brightness, contrast)]

Has(r, kind, i) == \E p \in 1 .. Len(r.events) : r.events[p] = <<kind, i>>
Count(r, kind) == Cardinality({p \in 1 .. Len(r.events) : r.events[p][1] = kind})
KeyOf(i) == Key(RowOf(i), ColOf(i))
LiveKeys == DOMAIN activeOscillators

----------------------------------------------------------------------------
(* C1 *)

\* C1: in every reachable state the number of live voices (entries of
\* activeOscillators) is at most the configured maximum of concurrent voices.
C1_VoicePoolBound == Cardinality(LiveKeys) <= maxOscillators

\* C1, restricted to the variants that configure a maximum (part_000, part_001).
C1_CanvasPoolBound == variant = "canvas" => Cardinality(LiveKeys) <= maxOscillators

\* A tick is about to run in which every cell of the grid can activate at once.
C1_AllCellsCanActivate ==
    /\ TickEnabled /\ ~NotReady /\ soundEnabled
    /\ \E r \in TickRuns : \A i \in Cells : Has(r, "trig", i)

----------------------------------------------------------------------------
(* C2 *)

\* C2: at every instant there is at most one live voice per (row, col) key,
\* and the Map holds exactly the live voices.
C2_Inv ==
    /\ \A v, w \in voices : v.key = w.key => v = w
    /\ LiveKeys = {v.key : v \in voices}
    /\ \A v \in voices : activeOscillators[v.key] = v.id

\* C2: a live voice stays in place, untouched, in every step except its own
\* completion callback; no step adds a second voice for its key.
C2_Step ==
    \A v \in voices :
        \/ OnEnded(v)
        \/ /\ v \in voices'
           /\ v.key \in DOMAIN activeOscillators'
           /\ activeOscillators'[v.key] = v.id
           /\ \A w \in voices' : w.key = v.key => w = v

\* C2: at most one live voice per key; a trigger for a cell that holds a live
\* voice creates no second voice and leaves the existing one untouched until
\* it has completed.
C2_NoRetrigger == []C2_Inv /\ [][C2_Step]_vars

\* A tick is about to trigger a cell that holds a live voice.
C2_TriggerOnLiveCell ==
    /\ TickEnabled /\ ~NotReady /\ soundEnabled
    /\ \E r \in TickRuns : \E i \in Cells : Has(r, "trig", i) /\ KeyOf(i) \in LiveKeys

----------------------------------------------------------------------------
(* C3 *)

----------------------------------------------------------------------------
(* C4 *)

WritesPrevious(e) == e[1] = "prev"
ClassifiesOrSonifies(e) == e[1] \in {"act", "deact", "trig", "voice"}

\* C4: within a tick no cell of previous is written before every cell's
\* transition has been classified and every trigger dispatched.
C4_PreviousWrittenLast ==
    TickEnabled =>
        \A r \in TickRuns : \A p, q \in 1 .. Len(r.events) :
            (p < q /\ WritesPrevious(r.events[p])) => ~ClassifiesOrSonifies(r.events[q])

\* C4, restricted to renderDots (part_000, part_001).
C4_CanvasPreviousWrittenLast == variant = "canvas" => C4_PreviousWrittenLast

----------------------------------------------------------------------------
(* C5 *)

\* 300 * clamp(((mean(R,G,B) + brightness) - 128) * contrast/100 + 128, 0, 255),
\* an integer, in exact arithmetic.
AdjustedLuma300(px, br, ct) ==
    Max2(0, Min2(76500, ((px[1] + px[2] + px[3]) + 3 * br - 384) * ct + 38400))

\* C5: a tick sets a cell on exactly when
\* clamp(((mean(R,G,B) + brightness) - 128) * contrast/100 + 128, 0, 255) is
\* strictly greater than threshold; a luma equal to threshold yields off.
C5_ThresholdRule ==
    (TickEnabled /\ cameraActive /\ videoReadyState >= 2) =>
        \A r \in TickRuns : \A i \in Cells :
            r.cur[i] <=> AdjustedLuma300(r.data[i], brightness, contrast) > 300 * threshold

\* C5, the scenario: with threshold 128, brightness 0 and contrast 100 a
\* sample (200,200,200) yields on and (50,50,50) yields off.
C5_Scenario ==
    (TickEnabled /\ cameraActive /\ videoReadyState >= 2
        /\ threshold = 128 /\ brightness = 0 /\ contrast = 100) =>
        \A r \in TickRuns : \A i \in Cells :
            /\ r.data[i] = <<200, 200, 200>> => r.cur[i]
            /\ r.data[i] = <<50, 50, 50>> => ~r.cur[i]

----------------------------------------------------------------------------
(* C8 *)

\* C8: when the audio context is unavailable the display still runs: its
\* ticks create no voice and complete their grid update.
C8_RunsWithoutAudio ==
    ~audioContext =>
        /\ constructed
        /\ \A r \in TickRuns : Count(r, "voice") = 0 /\ r.cur = Thresholded(r)

----------------------------------------------------------------------------
(* C6 *)

\* A step of the loop taken while not ready changes neither grid nor pool.
C6_Step ==
    (~cameraActive \/ videoReadyState < 2) =>
        (UNCHANGED <<currentState, previousState, activeOscillators, voices>> \/ ~TickStep)

\* A run of processFrame while not ready draws, classifies and triggers nothing.
C6_NoEvents ==
    (~cameraActive \/ videoReadyState < 2) => \A r \in TickRuns : r.events = << >>

\* C6: a tick that fires while the camera is inactive or video.readyState < 2
\* leaves current, previous and the live voices unchanged, and renders and
\* triggers nothing.
C6_NotReadySkipsTick == []C6_NoEvents /\ [][C6_Step]_vars

\* A tick is scheduled while the source is not ready, with a grid and a live
\* voice for it to preserve.
C6_TickWhileNotReady ==
    /\ constructed /\ cameraActive /\ videoReadyState < 2
    /\ rafCallbacks # {} \/ intervalTimers # {}
    /\ \E i \in Cells : currentState[i]
    /\ voices # {}

----------------------------------------------------------------------------
(* C7 *)

\* With sound disabled no step adds a voice or a key.
C7_Step ==
    ~soundEnabled => /\ voices' \subseteq voices
                     /\ DOMAIN activeOscillators' \subseteq LiveKeys

\* With sound disabled a ready tick still writes the thresholded grid.
C7_GridUpdated ==
    (TickEnabled /\ ~soundEnabled /\ cameraActive /\ videoReadyState >= 2) =>
        \A r \in TickRuns : r.cur = Thresholded(r) /\ Count(r, "voice") = 0

\* C7: while sound is disabled no step creates a voice or adds to the live
\* set, whatever cells activate; ticks still update the grid.
C7_SoundDisabledNoVoices == []C7_GridUpdated /\ [][C7_Step]_vars

\* With sound disabled, a tick is about to trigger every cell and change the grid.
C7_TriggersWhileDisabled ==
    /\ TickEnabled /\ ~NotReady /\ ~soundEnabled
    /\ \E r \in TickRuns : /\ \A i \in Cells : Has(r, "trig", i)
                           /\ r.cur # currentState

----------------------------------------------------------------------------
(* C9 *)

\* The positions of run r's events up to p at which a voice was created.
VoicesBefore(r, p) == {q \in 1 .. (p - 1) : r.events[q][1] = "voice"}

\* The cells run r triggered that held no live voice when the tick began.
FreshTriggers(r) == {i \in Cells : Has(r, "trig", i) /\ KeyOf(i) \notin LiveKeys}

\* C9 (part_000, part_001): a trigger that finds the pool at or above the
\* maximum is dropped: a voice is created only directly by its own trigger and
\* only below the maximum, the live set otherwise stays as it was, and a tick
\* creates as many voices as there are free slots when more cells trigger.
C9_DropAtMaximum ==
    (variant = "canvas" /\ TickEnabled) =>
        \A r \in TickRuns :
            /\ \A p \in 1 .. Len(r.events) :
                   r.events[p][1] = "voice" =>
                       /\ p > 1
                       /\ r.events[p - 1] = <<"trig", r.events[p][2]>>
                       /\ Cardinality(LiveKeys) + Cardinality(VoicesBefore(r, p)) < maxOscillators
            /\ voices \subseteq r.voices
            /\ DOMAIN r.osc = LiveKeys \cup {KeyOf(i) : i \in {j \in Cells : Has(r, "voice", j)}}
            /\ \A k \in LiveKeys : r.osc[k] = activeOscillators[k]
            /\ soundEnabled =>
                   Count(r, "voice") =
                       Min2(Max2(0, maxOscillators - Cardinality(LiveKeys)),
                            Cardinality(FreshTriggers(r)))

\* With an empty pool, a tick is about to trigger every cell, more cells than
\* the maximum, and creates exactly the maximum number of voices.
C9_MoreTriggersThanSlots ==
    /\ variant = "canvas" /\ TickEnabled /\ ~NotReady /\ soundEnabled
    /\ LiveKeys = {}
    /\ maxOscillators < NCells
    /\ \E r \in TickRuns : /\ \A i \in Cells : Has(r, "trig", i)
                           /\ Count(r, "voice") = maxOscillators

----------------------------------------------------------------------------
(* C10 *)

\* A key or voice that disappears in a step does so in its own onended callback.
C10_Step ==
    /\ \A k \in LiveKeys :
           k \notin DOMAIN activeOscillators' => \E v \in voices : v.key = k /\ OnEnded(v)
    /\ \A v \in voices : v \notin voices' => OnEnded(v)

\* C10: a key leaves the live-voice set only through the completion callback
\* of the voice bound to it: no tick, setter or stopCamera removes a live entry.
C10_OnlyCompletionRemoves == [][C10_Step]_vars

\* The camera has been stopped while a voice is live.
C10_StoppedWithLiveVoice ==
    /\ constructed /\ ~cameraActive /\ ~stream /\ ~startDisabled
    /\ voices # {}

----------------------------------------------------------------------------
\* C11: every voice that is created is eventually removed from the live-voice
\* set once its completion callback fires, whether or not ticks continue,
\* sound is later disabled or the camera is stopped; hence a full pool does
\* not stay full forever.
C11_EveryVoiceEnds ==
    \A v \in PossibleVoices : (v \in voices) ~> (v \notin voices /\ v.key \notin LiveKeys)

C11_FullPoolDrains ==
    (variant = "canvas" /\ Cardinality(LiveKeys) >= maxOscillators)
        ~> (Cardinality(LiveKeys) < maxOscillators)

C11_VoicesEnd == C11_EveryVoiceEnds /\ C11_FullPoolDrains

\* A voice is live after the camera was stopped and sound was disabled.
C11_VoiceOutlivesStop ==
    /\ voices # {}
    /\ stopped /\ ~cameraActive
    /\ ~soundEnabled
    /\ variant = "canvas" => Cardinality(LiveKeys) >= maxOscillators

----------------------------------------------------------------------------
\* C12: in every reachable state, after any sequence of ticks, setters,
\* start/stop and re-render operations, current and previous both have exactly
\* cols * rows cells.
C12_GridSizes ==
    /\ DOMAIN currentState = 0 .. (cols * rows - 1)
    /\ DOMAIN previousState = 0 .. (cols * rows - 1)
    /\ Cardinality(DOMAIN currentState) = cols * rows
    /\ Cardinality(DOMAIN previousState) = cols * rows

\* Frames have run, setters were called and the camera was stopped.
C12_AfterTicksSettersAndStop ==
    /\ stopped
    /\ \E i \in Cells : lastTickGrid[i]
    /\ threshold # 128
    /\ ~mirrorCamera

----------------------------------------------------------------------------
\* C13: at the start of every tick, previous equals cell for cell the grid as
\* it stood at the end of the last completed (non-skipped) tick, or all-off if
\* no tick has completed yet; skipped ticks and operations between ticks do
\* not alter this baseline.
C13_Inv == previousState = lastTickGrid

C13_Step ==
    \/ previousState' = previousState
    \/ ~NotReady /\ TickStep

C13_PreviousIsLastTick == []C13_Inv /\ [][C13_Step]_vars

\* A tick is about to run on a ready source; an earlier tick left a cell on
\* and a voice live, and a setter has run since the display was constructed.
C13_TickAfterTickAndSetter ==
    /\ TickEnabled /\ ~NotReady
    /\ \E i \in Cells : lastTickGrid[i]
    /\ brightness # 0
    /\ voices # {}

----------------------------------------------------------------------------
\* C14: after stopCamera returns, no further tick runs (the grid is not
\* mutated and no voice is created) until startCamera is invoked again.
C14_Step ==
    stopped => /\ UNCHANGED <<currentState, previousState>>
               /\ voices' \subseteq voices

\* What holds of the claim: while the camera is stopped and no request granted
\* since has made it active again, no step mutates the grid or creates a voice.
C14_InactiveStep ==
    (stopped /\ ~cameraActive) => /\ UNCHANGED <<currentState, previousState>>
                                  /\ voices' \subseteq voices

C14_NoTickWhileInactive == [][C14_InactiveStep]_vars

C14_NoTickAfterStop == [][C14_Step]_vars

----------------------------------------------------------------------------
\* C15: no parameter change and no stop cancels a voice in flight:
\* setThreshold, setBrightness, setContrast, setMirror, setVolume,
\* setSoundEnabled (disabling sound included) and stopCamera each leave the
\* live-voice set and every live voice's start time and duration unchanged.
C15_SetterOrStop ==
    \/ \E value \in ThresholdInputs : SetThreshold(value)
    \/ \E value \in BrightnessInputs : SetBrightness(value)
    \/ \E value \in ContrastInputs : SetContrast(value)
    \/ \E enabled \in BOOLEAN : SetMirror(enabled)
    \/ \E value \in VolumeInputs : SetVolume(value)
    \/ \E enabled \in BOOLEAN : SetSoundEnabled(enabled)
    \/ StopCamera

C15_Step ==
    \/ /\ activeOscillators' = activeOscillators
       /\ voices' = voices
       /\ \A v \in voices : \E w \in voices' :
              w.id = v.id /\ w.key = v.key /\ w.start = v.start /\ w.duration = v.duration
    \/ ~C15_SetterOrStop

C15_VoicesKeepPlaying == [][C15_Step]_vars

\* A voice is in flight although, since the display was constructed, sound
\* was disabled, the volume and the threshold were changed and the camera
\* was stopped.
C15_VoiceAfterSettersAndStop ==
    /\ voices # {}
    /\ ~soundEnabled
    /\ volume = 50
    /\ threshold # 128
    /\ stopped /\ ~cameraActive

----------------------------------------------------------------------------
\* C16: if camera access is denied or the device fails during startCamera,
\* startCamera does not raise, the pipeline stays idle (no tick mutates the
\* grid, no processing loop is started) and no retry happens automatically:
\* ticks begin only after a later explicit startCamera that succeeds.
\* The rejection is handled and changes nothing but the count of pending
\* requests; an inactive camera's grid is not mutated; the camera becomes
\* active only when a request is granted, and a request is made only by
\* startCamera.
C16_Step ==
    /\ DenyCamera =>
           /\ pendingGetUserMedia' = pendingGetUserMedia - 1
           /\ UNCHANGED <<stream, cameraActive, startDisabled, metadataPending,
                          videoReadyState, animationFrameId, rafCallbacks,
                          updateInterval, intervalTimers, currentState, previousState,
                          activeOscillators, voices>>
    /\ ~cameraActive =>
           /\ UNCHANGED <<currentState, previousState>>
           /\ voices' \subseteq voices
    /\ (~cameraActive /\ cameraActive') => GrantCamera
    /\ pendingGetUserMedia' > pendingGetUserMedia => StartCamera

C16_DenialLeavesIdle == [][C16_Step]_vars

\* A request is pending on an idle pipeline: no stream, no loop, no metadata
\* callback outstanding.
C16_RequestPendingWhileIdle ==
    /\ pendingGetUserMedia > 0
    /\ ~cameraActive /\ ~stream /\ ~metadataPending
    /\ rafCallbacks = {} /\ intervalTimers = {}
    /\ ENABLED DenyCamera

----------------------------------------------------------------------------
\* C17: after any sequence of setter calls with arbitrary inputs (out-of-range
\* and malformed non-numeric values included), the stored parameters stay in
\* their domains: threshold is a number in [0, 255], volume is in [0, 1],
\* brightness and contrast are numbers.
C17_ParametersInDomain ==
    /\ ~IsNaN(threshold) /\ 0 <= threshold /\ threshold <= 255
    /\ ~IsNaN(volume) /\ 0 <= volume /\ volume <= 100
    /\ ~IsNaN(brightness)
    /\ ~IsNaN(contrast)

----------------------------------------------------------------------------
\* C19: a setter call never takes effect in the middle of a tick: every cell
\* of one tick is thresholded with the same (threshold, brightness, contrast)
\* values and sonified under the same soundEnabled value, and a setter
\* invoked between ticks is observed by the very next tick.  In every state,
\* so also in the state a setter leaves, each tick that can run next leaves
\* every cell thresholded with the stored parameters, creates no voice if
\* sound is disabled, and otherwise creates one for every trigger that finds
\* its key free and the pool below the maximum.
C19_TickUsesStoredParameters ==
    (TickEnabled /\ ~NotReady) =>
        \A r \in TickRuns :
            /\ r.cur = [i \in Cells |->
                           ThresholdPixel(r.data[i], threshold, brightness, contrast)]
            /\ ~soundEnabled => Count(r, "voice") = 0
            /\ soundEnabled =>
                   \A p \in 1 .. Len(r.events) :
                       (/\ r.events[p][1] = "trig"
                        /\ KeyOf(r.events[p][2]) \notin LiveKeys
                        /\ variant = "canvas" =>
                               Cardinality(LiveKeys) + Cardinality(VoicesBefore(r, p))
                                   < maxOscillators)
                       => /\ p < Len(r.events)
                          /\ r.events[p + 1] = <<"voice", r.events[p][2]>>

\* Setters have changed threshold and brightness and sound is enabled; a tick
\* is about to run in which a cell turns on, and starts a voice, that the
\* new threshold with the old brightness would have left off.
C19_TickAfterSetters ==
    /\ TickEnabled /\ ~NotReady
    /\ threshold = 220 /\ brightness = 30 /\ soundEnabled
    /\ \E r \in TickRuns :
           \E i \in Cells : /\ Has(r, "voice", i)
                             /\ ~ThresholdPixel(r.data[i], threshold, 0, contrast)

----------------------------------------------------------------------------
\* What a run does to the cell of event e: it thresholds the cell (the dom
\* variant computes state, the canvas variants store it in currentState), or
\* it renders or sonifies it.
ThresholdsCell(e) == e[1] \in {"thr", "cur"}
RendersOrSonifies(e) == e[1] \in {"draw", "act", "trig", "voice"}

\* C20: the renderer and the Trigger Engine only ever read a grid in which
\* every cell of the current tick has already been thresholded: no cell is
\* rendered or sonified while later cells of the same tick still hold the
\* previous tick's value.
C20_ThresholdedBeforeRead ==
    TickEnabled =>
        \A r \in TickRuns :
            \A p \in 1 .. Len(r.events) : \A q \in 1 .. Len(r.events) :
                (RendersOrSonifies(r.events[p]) /\ ThresholdsCell(r.events[q])) => q < p

\* What holds of the claim: renderDots of part_000 and part_001 runs after
\* processFrame's loop has thresholded every cell.
C20_CanvasThresholdedBeforeRead ==
    (variant = "canvas" /\ TickEnabled) =>
        \A r \in TickRuns :
            \A p \in 1 .. Len(r.events) : \A q \in 1 .. Len(r.events) :
                (RendersOrSonifies(r.events[p]) /\ ThresholdsCell(r.events[q])) => q < p


----------------------------------------------------------------------------
(* The pitch mapping. *)

\* The rows whose frequency has been computed.
Sounded == DOMAIN tones.frequency

\* Every row of the display has been sounded.
AllSounded == Sounded = 0 .. (tones.rows - 1)

\* C21: pitch is monotone in the row: of two rows the upper one (the smaller
\* index) is given a frequency greater than or equal to that of the lower
\* one, whichever Numbers Math.pow returns.
C21_PitchMonotone ==
    \A r1 \in Sounded : \A r2 \in Sounded :
        r1 < r2 => NumberAtLeast(tones.frequency[r1].lo, tones.frequency[r2].hi)

\* All the rows of an exponential display of three rows or more have sounded.
C21_ExponentialRowsSounded ==
    /\ tones.source = "part_001"
    /\ tones.rows >= 3
    /\ AllSounded


\* x = y
NumberEqual(x, y) == NumberAtLeast(x, y) /\ NumberAtLeast(y, x)

\* The frequency of a sounded row is exactly the integer n.
FrequencyIs(row, n) ==
    /\ NumberEqual(tones.frequency[row].lo, NumberOf(n))
    /\ NumberEqual(tones.frequency[row].hi, NumberOf(n))

\* C22: the mapping hits both endpoints: row 0 is given exactly the configured
\* maximum frequency and row rows - 1 exactly the configured minimum.
C22_EndpointsHit ==
    /\ 0 \in Sounded => FrequencyIs(0, maxFreq(tones.source))
    /\ (tones.rows - 1) \in Sounded => FrequencyIs(tones.rows - 1, minFreq(tones.source))

\* What does hold: the linear mappings give row 0 exactly the maximum, and
\* every mapping gives the last row more than the minimum.
C22_LinearTopIsMaximum ==
    (tones.source # "part_001" /\ 0 \in Sounded) => FrequencyIs(0, maxFreq(tones.source))

C22_LastRowAboveMinimum ==
    (tones.rows - 1) \in Sounded =>
        NumberGreater(tones.frequency[tones.rows - 1].lo, NumberOf(minFreq(tones.source)))

\* The exponential mapping gives row 0 more than the maximum.
C22_ExponentialTopAboveMaximum ==
    (tones.source = "part_001" /\ 0 \in Sounded) =>
        NumberGreater(tones.frequency[0].lo, NumberOf(maxFreq(tones.source)))


----------------------------------------------------------------------------
(* C23 *)

\* C23: with contrast = 0 the adjusted luma of every sample is 128 whatever
\* the brightness, and every frame leaves all cells in one state: off when
\* threshold >= 128, on when threshold < 128.
C23_ZeroContrastFlattens ==
    contrast = 0 =>
        /\ \A px \in scene :
               NumberEqual(Gray(px[1] + px[2] + px[3], brightness, contrast),
                           NumberOf(128))
        /\ \A r \in TickRuns : \A i \in Cells : r.cur[i] = (threshold < 128)

\* A frame has turned every cell on at contrast 0, with the brightness at its
\* lowest and the threshold below 128.
C23_AllOnAtZeroContrast ==
    /\ contrast = 0
    /\ threshold < 128
    /\ threshold > 0
    /\ brightness < 0
    /\ \A i \in Cells : lastTickGrid[i] /\ currentState[i]


----------------------------------------------------------------------------
(* C24 *)

\* The grid the thresholding gives the samples of a frame: a function of the
\* samples and the three sliders, and of nothing else.
ThresholdGrid(data, th, br, ct) == [i \in Cells |-> ThresholdPixel(data[i], th, br, ct)]

\* C24: thresholding is deterministic and history-free: in every state, i.e.
\* whatever the grids, the live voices and the sound settings are, every run
\* of a frame leaves as current grid the function ThresholdGrid of its
\* samples and of (threshold, brightness, contrast), and two runs on the same
\* samples, differing in the random trigger choices, leave the same grid.
C24_ThresholdingIsAFunction ==
    ~NotReady =>
        /\ \A r \in TickRuns :
               r.cur = ThresholdGrid(r.data, threshold, brightness, contrast)
        /\ \A r1 \in TickRuns : \A r2 \in TickRuns :
               r1.data = r2.data => r1.cur = r2.cur

\* A frame is about to run on a grid that is not blank, with a voice live and
\* the sliders moved, and its random trigger choices can fall in two ways.
C24_TickWithHistoryAndChoice ==
    /\ TickEnabled /\ ~NotReady
    /\ \E i \in Cells : currentState[i]
    /\ voices # {}
    /\ threshold # 128
    /\ \E r1 \in TickRuns : \E r2 \in TickRuns :
           r1.data = r2.data /\ r1.events # r2.events


----------------------------------------------------------------------------
(* C25 *)

\* The loop is running: the camera is active and a callback is scheduled.
LoopRunning ==
    /\ constructed /\ cameraActive
    /\ \/ variant = "canvas" /\ animationFrameId \in rafCallbacks
       \/ variant = "dom" /\ updateInterval \in intervalTimers

\* A step of the running loop, whatever its frame does (skipped, silent, all
\* triggers dropped or none of these), leaves the loop running; and the
\* running loop ends with stopCamera only.
C25_Step ==
    LoopRunning =>
        /\ TickStep => LoopRunning'
        /\ ~LoopRunning' => (~cameraActive' /\ stopped')

\* C25: once the loop is running it keeps scheduling ticks until stopCamera:
\* a tick skipped because the source is not ready, a tick with sound disabled
\* or without audio and a tick whose triggers are all dropped are each
\* followed by another scheduled tick.
C25_LoopKeepsScheduling == [][C25_Step]_vars

\* The loop is running after a frame that turned cells on, the source is not
\* ready, sound is disabled and every key of the grid is taken.
C25_LoopThroughSkipMuteAndFullPool ==
    /\ LoopRunning
    /\ videoReadyState < 2
    /\ ~soundEnabled
    /\ \E i \in Cells : lastTickGrid[i]
    /\ Cardinality(LiveKeys) >= maxOscillators


----------------------------------------------------------------------------
(* C26 *)

\* The cells v is a voice of.
CellsOf(v) == {i \in Cells : KeyOf(i) = v.key}

\* Every run of a frame, whatever its random trigger choices, starts voices
\* for cells only that it turns from off to on.
C26_Runs ==
    \A r \in TickRuns :
        /\ \A i \in Cells : Has(r, "voice", i) => (~previousState[i] /\ r.cur[i])
        /\ \A v \in r.voices \ voices :
               \E i \in CellsOf(v) : Has(r, "voice", i) /\ ~previousState[i] /\ r.cur[i]

\* A voice a step adds belongs to a cell the step turns on.
C26_Step ==
    \A v \in voices' \ voices :
        /\ TickStep
        /\ \E i \in CellsOf(v) : ~previousState[i] /\ currentState'[i]

\* C26: a voice is created in a tick only for a cell activated in that tick
\* (off in previous, on in current); a deactivated or unchanged cell never
\* gets a voice, whatever the random trigger outcomes.
C26_VoicesForActivationsOnly == []C26_Runs /\ [][C26_Step]_vars

\* A frame is about to run, with sound on and room in the pool, that can
\* turn a cell off, leave a lit cell as it is and turn another cell on.
C26_TickWithAllTransitions ==
    /\ TickEnabled /\ ~NotReady /\ soundEnabled
    /\ LiveKeys = {}
    /\ \E r \in TickRuns : \E i, j \in Cells :
           /\ previousState[i] /\ ~r.cur[i]
           /\ ~previousState[j] /\ r.cur[j] /\ Has(r, "voice", j)
    /\ \E r \in TickRuns : \E i \in Cells : previousState[i] /\ r.cur[i]


----------------------------------------------------------------------------
(* C27 *)

\* A step that is not a step of the processing loop adds no voice and no
\* key, and changes the pool only as the completion callback of a live voice
\* does.
C27_Step ==
    /\ \/ voices' \subseteq voices /\ DOMAIN activeOscillators' \subseteq LiveKeys
       \/ TickStep
    /\ \/ UNCHANGED pool
       \/ TickStep
       \/ \E v \in voices : OnEnded(v)

\* C27: outside a tick the live-voice count never increases: the only change
\* to the live-voice set between ticks is removal by a completion callback
\* (setDotSize, which redraws outside a tick, included), so the count a
\* tick's pool check reads is never below the count at the insertion.
C27_NoVoicesOutsideTicks == [][C27_Step]_vars

\* canvas: lit cells and a live voice with the pool not full after a voice
\* has ended, so that a redraw outside a tick would have room to add voices.
C27_LitCellsAndRoomOutsideTick ==
    /\ variant = "canvas" /\ constructed
    /\ \A i \in Cells : currentState[i]
    /\ Cardinality(LiveKeys) < maxOscillators
    /\ soundEnabled
    /\ ~cameraActive /\ stopped


----------------------------------------------------------------------------
(* C28 *)

\* this.masterGain.gain.value, in hundredths: initAudio and setVolume set it
\* to this.volume.
MasterGainValue == volume

\* The level at which live voice v reaches the destination, in hundredths of
\* its own envelope: the gain node of every voice is connected to the one
\* this.masterGain.
OutputLevel(v) == IF v \in voices THEN MasterGainValue ELSE 0

\* C28: a volume change applies to voices created afterwards only: a step
\* of setVolume taken while voices are live leaves the output level of every
\* voice in flight as it was.
C28_VolumeLeavesLiveVoices ==
    [][\A v \in voices \cap voices' : OutputLevel(v)' = OutputLevel(v)]_vars

\* What does hold: setVolume leaves the set of live voices as it is.
C28_VolumeKeepsVoices ==
    [][volume' # volume => UNCHANGED pool]_vars


----------------------------------------------------------------------------
(* C29 *)

\* x * y, exactly.
NumberProduct(x, y) ==
    [neg |-> x.neg # y.neg, mag |-> BigMul(x.mag, y.mag), scale |-> x.scale + y.scale]

\* Three rows in a row have sounded, r being the first.
Adjacent(r) == r \in Sounded /\ (r + 1) \in Sounded /\ (r + 2) \in Sounded

\* frequency(r) * frequency(r + 2) = frequency(r + 1)^2 for some Numbers
\* that the three frequencies may be.
ConstantRatio(r) ==
    LET f == tones.frequency
    IN  /\ NumberAtLeast(NumberProduct(f[r + 1].hi, f[r + 1].hi),
                         NumberProduct(f[r].lo, f[r + 2].lo))
        /\ NumberAtLeast(NumberProduct(f[r].hi, f[r + 2].hi),
                         NumberProduct(f[r + 1].lo, f[r + 1].lo))

\* C29: the mapping from row to frequency is exponential: adjacent rows are
\* separated by a constant frequency ratio, frequency(r) * frequency(r + 2)
\* = frequency(r + 1)^2 for every r.
C29_ConstantRatio ==
    \A r \in Sounded : Adjacent(r) => ConstantRatio(r)

\* What does hold: part_001 has the constant ratio, to the precision its
\* frequencies are known to.
C29_ExponentialConstantRatio ==
    tones.source = "part_001" => \A r \in Sounded : Adjacent(r) => ConstantRatio(r)

\* script.js and part_000 do not: frequency(r) * frequency(r + 2) lies below
\* frequency(r + 1)^2 by more than 1, as it does for equal differences.
C29_LinearBelowConstantRatio ==
    tones.source # "part_001" =>
        \A r \in Sounded :
            Adjacent(r) =>
                LET f == tones.frequency
                IN  NumberGreater(NumberProduct(f[r + 1].lo, f[r + 1].lo),
                                  NumberAdd(NumberProduct(f[r].hi, f[r + 2].hi),
                                            NumberOf(1)))


----------------------------------------------------------------------------
(* C30 *)

\* C30: at most one processing loop (interval timer or chain of animation
\* frames) is scheduled at any time, for every sequence of startCamera,
\* loadedmetadata, stopCamera and setUpdateSpeed, two startCamera calls
\* before the first grant included.
C30_OneLoop == Cardinality(rafCallbacks) + Cardinality(intervalTimers) <= 1

\* What does hold: script.js never has two timers.
C30_DomOneTimer == variant = "dom" => Cardinality(intervalTimers) <= 1

\* canvas: two chains of animation frames run side by side, the camera
\* active, one of them beyond the reach of stopCamera.
C30_TwoChainsRunning ==
    /\ variant = "canvas" /\ cameraActive
    /\ Cardinality(rafCallbacks) = 2
    /\ pendingGetUserMedia = 0


----------------------------------------------------------------------------
(* C31 *)

\* canvas: between the actions previousState equals currentState.
C31_Inv == variant = "canvas" => previousState = currentState

\* A step of setDotSize leaves the grids and the pool as they are.
C31_Step == UNCHANGED <<grid, pool>> \/ ~SetDotSize

\* C31: a re-render outside a tick (setDotSize) creates no voice and leaves
\* current and previous unchanged in every reachable state: previous equals
\* current whenever no tick is running, so renderDots sees no activated cell.
C31_RedrawChangesNothing == []C31_Inv /\ [][C31_Step]_vars

\* canvas: the loop is running with a lit and an unlit cell, sound on and
\* the pool empty: a redraw that took a cell for activated could sound it.
C31_RedrawWithLitCellAndEmptyPool ==
    /\ variant = "canvas" /\ constructed /\ cameraActive
    /\ \E i, j \in Cells : currentState[i] /\ ~currentState[j]
    /\ soundEnabled
    /\ LiveKeys = {} /\ voices = {}


----------------------------------------------------------------------------
(* C32 *)

\* The entry under the key of a live voice is that voice's own: no newer
\* voice has taken the key.
C32_Inv ==
    \A v \in voices : v.key \in LiveKeys /\ activeOscillators[v.key] = v.id

\* A step in which voices end removes the entries of just these voices and
\* leaves every other entry as it is.
C32_Step ==
    LET ended == voices \ voices'
    IN  /\ \A k \in LiveKeys \ DOMAIN activeOscillators' :
               \E v \in ended : v.key = k /\ activeOscillators[k] = v.id
        /\ \A k \in LiveKeys \cap DOMAIN activeOscillators' :
               (\A v \in ended : v.key # k) => activeOscillators'[k] = activeOscillators[k]
        /\ \A v \in ended : v.key \notin DOMAIN activeOscillators'

\* C32: the completion callback of a voice removes exactly that voice's own
\* entry: never the entry of another key, and never a newer voice created
\* for the same key, under every interleaving of ticks and callbacks.
C32_OnEndedRemovesOwnEntry == []C32_Inv /\ [][C32_Step]_vars

\* Two voices are live under different keys while the loop is running: the
\* callback of either is about to run beside the other's entry.
C32_TwoVoicesWhileRunning ==
    /\ TickEnabled /\ ~NotReady
    /\ \E v, w \in voices : v.key # w.key


----------------------------------------------------------------------------
(* C33 *)

\* Cell a = (row, col) comes before cell b in row-major order.
RowMajorBefore(a, b) == a[1] < b[1] \/ (a[1] = b[1] /\ a[2] < b[2])

\* The cells the call gave a voice.
PassVoiced == {pass.voiced[p] : p \in 1 .. Len(pass.voiced)}

\* The triggering cells that had no voice when the call began.
PassFresh == {c \in pass.triggered : Key(c[1], c[2]) \notin pass.live}

\* The free slots when the call began.
PassFree == pass.max - Cardinality(pass.live)

\* C33: when a tick has more triggering cells than free slots, the slots go
\* to the triggering cells that come first in row-major order and every
\* later one is dropped: no cell gets a voice while a triggering, voiceless
\* cell before it was dropped.
C33_RowMajorSlots ==
    pass.done =>
        /\ PassVoiced \subseteq PassFresh
        /\ Cardinality(PassVoiced) = Min2(PassFree, Cardinality(PassFresh))
        /\ \A a \in PassFresh : \A b \in PassVoiced :
               RowMajorBefore(a, b) => a \in PassVoiced
        /\ \A p \in 1 .. Len(pass.voiced) : \A q \in 1 .. Len(pass.voiced) :
               p < q => RowMajorBefore(pass.voiced[p], pass.voiced[q])

\* A call on a grid of two rows and two columns has ended, with a voice
\* live before it, a free slot given to a cell of the top row and triggering
\* cells dropped in the top row's remainder and in the row below.
C33_DroppedAcrossRows ==
    /\ pass.done
    /\ pass.rows >= 2 /\ pass.cols >= 2
    /\ pass.live # {}
    /\ PassFree >= 1
    /\ \E a \in PassVoiced : \E b, c \in PassFresh \ PassVoiced :
           a[1] = 0 /\ b[1] = 0 /\ c[1] = 1 /\ c[2] < b[2]


\* The same in the frames of the display itself, on its one row: of two
\* triggering, voiceless cells the later one gets no voice unless the earlier
\* one does.
C33_TickSlotsInOrder ==
    variant = "canvas" =>
        \A r \in TickRuns : \A i \in FreshTriggers(r) : \A j \in FreshTriggers(r) :
            (RowMajorBefore(<<RowOf(i), ColOf(i)>>, <<RowOf(j), ColOf(j)>>)
             /\ Has(r, "voice", j)) => Has(r, "voice", i)


----------------------------------------------------------------------------
(* C34 *)

\* Only a step of the processing loop changes current or previous: not
\* stopCamera, nor startCamera and the grant that follow it.
C34_Step == UNCHANGED <<currentState, previousState>> \/ TickStep

\* In every state, the states between a stop and the first frame after the
\* next start included, the grids are as the last frame that ran left them,
\* and a frame neither activates nor voices a cell that frame left on.
C34_Inv ==
    /\ currentState = lastTickGrid
    /\ previousState = lastTickGrid
    /\ \A r \in TickRuns : \A i \in Cells :
           (lastTickGrid[i] /\ r.cur[i]) => (~Has(r, "act", i) /\ ~Has(r, "voice", i))

\* C34: stopCamera leaves current and previous unchanged, so the first tick
\* after a stop and a successful start computes its transitions against the
\* grid as it stood before the stop: a cell on before the stop and on in the
\* first new frame is not activated and gets no voice.
C34_StopKeepsGrids == []C34_Inv /\ [][C34_Step]_vars

\* The camera has been granted again after a stop and no callback is
\* scheduled yet: the first frame after the restart is about to run on a
\* grid with a lit cell left from before the stop, sound on, the pool empty.
C34_FirstFrameAfterRestart ==
    /\ constructed /\ cameraActive /\ metadataPending /\ videoReadyState = 2
    /\ rafCallbacks = {} /\ intervalTimers = {}
    /\ \E i \in Cells : currentState[i] /\ previousState[i]
    /\ soundEnabled /\ LiveKeys = {}


----------------------------------------------------------------------------
\* The positions of the scroll timers that are set.
ScrollTimers(d) == {p \in 1 .. Len(d.timers) : d.timers[p].kind = "scroll"}

\* At most one scroll timer is set, and it is the one this.scrollInterval
\* holds the handle of.
C35_Inv ==
    /\ Cardinality(ScrollTimers(flipDisc)) <= 1
    /\ \A p \in ScrollTimers(flipDisc) :
          flipDisc.scrollInterval # 0 /\ flipDisc.timers[p].id = flipDisc.scrollInterval
    /\ flipDisc.scrollInterval # 0 => ScrollTimers(flipDisc) # {}

\* displayText, invoked or run by the load handler's timeout, leaves no
\* scroll timer set and scrollInterval null; scrollTextContinuous leaves one
\* scroll timer set, its own: due in 150 ms, at offset 0, for its text.
C35_Step ==
    /\ ((\E text \in Texts : DisplayText(text)) \/ WelcomeTimeout) =>
          (ScrollTimers(flipDisc') = {} /\ flipDisc'.scrollInterval = 0)
    /\ \A text \in Texts :
          ScrollText(text) =>
              /\ Cardinality(ScrollTimers(flipDisc')) = 1
              /\ \A p \in ScrollTimers(flipDisc') :
                    /\ flipDisc'.timers[p].id = flipDisc'.scrollInterval
                    /\ flipDisc'.timers[p].left = 150
                    /\ flipDisc'.timers[p].offset = 0
                    /\ flipDisc'.timers[p].text = text \o <<" ", " ", " ">>
                    /\ p = Len(flipDisc'.timers)

(* C35: in FlipDiscDisplay at most one scroll timer is set in every
   reachable state, for every sequence of displayText and
   scrollTextContinuous calls among the other operations:
   scrollTextContinuous clears the scroll timer that is set before it sets
   its own, and displayText clears it and leaves none set. *)
C35_OneScrollTimer == []C35_Inv /\ [][C35_Step]_vars

\* scrollTextContinuous was invoked after displayText('a'), while the
\* timeouts of the text were still set.
C35_ScrollAfterText ==
    /\ flipDisc.invoked = 2
    /\ flipDisc.shown.text = <<"a">>
    /\ ScrollTimers(flipDisc) # {}
    /\ \E p \in 1 .. Len(flipDisc.timers) :
          flipDisc.timers[p].kind = "setDisc" /\ flipDisc.timers[p].state.type = "number"


----------------------------------------------------------------------------
\* The pixel of the bitmap of `text` under disc i is set; a disc outside
\* the bitmap has none.
PixelOn(text, i) ==
    LET bitmap == textToBitmap(text)
    IN  /\ DiscRow(i) < Len(bitmap)
        /\ DiscCol(i) < Len(bitmap[1])
        /\ bitmap[DiscRow(i) + 1][DiscCol(i) + 1] = 1

(* C36: in FlipDiscDisplay, when displayText(text) was the last operation
   invoked and every timer that was set has come due, every disc is on
   exactly if the pixel of the text's bitmap under it is set (a disc outside
   the bitmap is off), whatever patterns were invoked before. *)
C36_TextShown ==
    (flipDisc.shown.called /\ flipDisc.timers = << >>) =>
        \A i \in Discs : Truthy(flipDisc.discs[i]) <=> PixelOn(flipDisc.shown.text, i)
====
